---- MODULE Spec2Model ----
(***************************************************************************)
(* Model of the Hygraph content source:                                    *)
(*   - onWebhook's reconcile loop (hygraph-content-source.ts),             *)
(*   - HygraphApiClient.getEntries' pagination loop (the api client),      *)
(*   - convertFieldsToQueryAST's recursive compilation (the api client).   *)
(* Each part has its own specification over the same variables.            *)
(***************************************************************************)
EXTENDS Integers, Sequences, FiniteSets, TLC

(***************************************************************************)
(* Bounds of the model and constants of the program                        *)
(***************************************************************************)
\* timestamps (updatedAt) range over 0..MaxTime; ISO strings of one format
\* compare with < as their instants do
MaxTime == 2
\* longest documentInStages list a fetched item carries
MaxStages == 2
\* `++tries < 10`
MaxTries == 10

\* longest `models` list of a relation field
MaxModels == 2
\* `visitedCount > 5`
VisitBound == 5
\* most entries a content type holds on the server
MaxItems == 3
\* largest maxPaginationSize passed to getEntries
MaxPageSize == 2
\* `first: maxPaginationSize ?? 100`
DefaultPageSize == 100
\* most operations of the client called one after another
MaxCalls == 2
\* longest string among the argument values serialized
MaxChars == 2
\* most requests one list operation of the client sends
MaxRounds == 2
\* most webhooks an environment holds before the first call of
\* createWebhookIfNeeded
MaxWebhooks == 2
\* uploadAsset: `++tries < 10`
UploadTries == 10

Undefined == <<>>
Some(x) == <<x>>

Operations == {"create", "update", "publish", "unpublish", "delete"}
\* the notified __typename: the asset model, a model the schema knows, and a
\* model the schema does not know
TypeNames == {"Asset", "Page", "Ghost"}
KnownModels == {"Page"}
Stages == {"PUBLISHED", "DRAFT"}
Times == 0..MaxTime

(***************************************************************************)
(* Items of the content API and of the cache                               *)
(***************************************************************************)
RECURSIVE SeqsUpTo(_, _)
SeqsUpTo(S, n) ==
    IF n = 0 THEN {<<>>}
    ELSE LET shorter == SeqsUpTo(S, n - 1)
         IN shorter \cup {Append(s, x) : s \in {t \in shorter : Len(t) = n - 1}, x \in S}

StageRecords == [stage : Stages, updatedAt : Times]
\* documentInStages holds at most one record per stage
StageLists ==
    {s \in SeqsUpTo(StageRecords, MaxStages) :
        \A i, j \in 1..Len(s) : i # j => s[i].stage # s[j].stage}
\* the DRAFT stage of an item is the item itself: its record carries the
\* item's own updatedAt
HygraphItems ==
    {i \in [updatedAt : Times, documentInStages : StageLists] :
        \A k \in 1..Len(i.documentInStages) :
            i.documentInStages[k].stage = "DRAFT"
                => i.documentInStages[k].updatedAt = i.updatedAt}
\* a cached Stackbit document or asset; only updatedAt is read by onWebhook
CachedItems == [updatedAt : Times, documentInStages : {<<>>}]

VARIABLES
    wpc,              \* position of the onWebhook invocation
    operation,        \* data.operation
    modelName,        \* data.data.__typename
    cache,            \* the cache collaborator's entry for the notified id
    cachedItem,       \* cachedAsset / cachedDocument, read at the start
    hygraphItem,      \* hygraphAsset / hygraphEntry, the last fetch's result
    tries,
    gotNewerVersion,
    convertible,      \* whether convertDocument yields a document
    numFetches,       \* calls of getAssetById / getEntryById
    numRequests,      \* requests those calls sent to the content API
    numDelays,        \* 500ms timeouts awaited
    warnings,         \* logger.warn calls, in order
    updates,          \* cache.updateContent calls, in order
    \* getEntries
    epc,              \* position of the getEntries invocation
    dataModels,       \* the models of type 'data', in order
    serverTotals,     \* the number of entries of each model on the server
    first,            \* __arguments.first of every connection
    queryAst,         \* queryAst.query: the connections still queried and their skip
    result,           \* the accumulator
    returned,         \* the array getEntries returned
    numRounds,        \* requests sent by contentClient.request
    numResponses,     \* requests of getEntries that were answered or rejected
    entryWarnings,    \* logger.warn calls of getEntries
    \* convertFieldsToQueryAST
    cpc,              \* position of the compilation
    schema,           \* the models getModelByName resolves, by name
    stack,            \* the active calls of convertFieldsToQueryAST, outermost first
    ast,              \* the outermost call's return value
    entryModel,       \* the model whose document selection is compiled
    queryText,        \* the lines of the query convertASTToQuery returned
    \* the operations of HygraphApiClient, called one after another
    clientPc,         \* position of the operation in progress
    clientOp,         \* the operation in progress
    clientRounds,     \* requests the operation in progress has sent
    clientWarnings,   \* logger.warn calls of the client, in order
    clientOutcomes,   \* how each finished operation ended, in order
    \* serializeQueryArgValue
    argPc,            \* position of the serialization
    argValue,         \* the argument value
    argText,          \* the text returned for it
    \* onWebhook invocations for one id that overlap
    reconciles,       \* per invocation: its position, cachedItem, tries and last fetch
    sharedCache,      \* the cache collaborator's entry for the id
    remoteUpdatedAt,  \* the updatedAt of the item on the content API
    \* createWebhookIfNeeded
    hookPc,           \* position of the call in progress
    webhookUrl,       \* its argument, <<>> when not set
    webhooks,         \* the webhooks of the environment on the management API
    existingWebhook,  \* the place of the webhook found, 0 when none
    hookRequests,     \* requests the call in progress sent to the management API
    hookBefore,       \* the webhooks when the call in progress was made
    hookCalls,        \* the calls that ended, in order
    \* uploadAsset
    uploadPc,         \* position of the call
    uploadOptions,    \* whether options.url or options.base64 is given
    uploadTries,      \* tries
    uploadSeen,       \* what each getAssetById of the call returned, in order
    uploadDelays,     \* 500ms timeouts awaited
    uploadWarnings,   \* logger.warn calls during the call, in order
    uploadOutcome     \* what the call returned or threw

wvars == <<wpc, operation, modelName, cache, cachedItem, hygraphItem, tries,
           gotNewerVersion, convertible, numFetches, numRequests, numDelays,
           warnings, updates>>

evars == <<epc, dataModels, serverTotals, first, queryAst, result, returned,
           numRounds, numResponses, entryWarnings>>

cvars == <<cpc, schema, stack, ast, entryModel, queryText>>

kvars == <<clientPc, clientOp, clientRounds, clientWarnings, clientOutcomes>>

avars == <<argPc, argValue, argText>>

rvars == <<reconciles, sharedCache, remoteUpdatedAt>>

hvars == <<hookPc, webhookUrl, webhooks, existingWebhook, hookRequests, hookBefore,
           hookCalls>>

uvars == <<uploadPc, uploadOptions, uploadTries, uploadSeen, uploadDelays,
           uploadWarnings, uploadOutcome>>

vars == <<wvars, evars, cvars, kvars, avars, rvars, hvars, uvars>>

\* what the steps of one part leave alone
WFrame == UNCHANGED <<evars, cvars, kvars, avars, rvars, hvars, uvars>>
EFrame == UNCHANGED <<wvars, cvars, kvars, avars, rvars, hvars, uvars>>
CFrame == UNCHANGED <<wvars, evars, kvars, avars, rvars, hvars, uvars>>
KFrame == UNCHANGED <<wvars, evars, cvars, avars, rvars, hvars, uvars>>
AFrame == UNCHANGED <<wvars, evars, cvars, kvars, rvars, hvars, uvars>>
RFrame == UNCHANGED <<wvars, evars, cvars, kvars, avars, hvars, uvars>>
HFrame == UNCHANGED <<wvars, evars, cvars, kvars, avars, rvars, uvars>>
UFrame == UNCHANGED <<wvars, evars, cvars, kvars, avars, rvars, hvars>>

\* the parts at rest
EIdle ==
    /\ epc = "idle"
    /\ dataModels = <<>>
    /\ serverTotals = <<>>
    /\ first = 0
    /\ queryAst = <<>>
    /\ result = <<>>
    /\ returned = Undefined
    /\ numRounds = 0
    /\ numResponses = 0
    /\ entryWarnings = <<>>

CIdle ==
    /\ cpc = "idle"
    /\ schema = <<>>
    /\ stack = <<>>
    /\ ast = <<>>
    /\ entryModel = ""
    /\ queryText = <<>>

KIdle ==
    /\ clientPc = "idle"
    /\ clientOp = ""
    /\ clientRounds = 0
    /\ clientWarnings = <<>>
    /\ clientOutcomes = <<>>

AIdle ==
    /\ argPc = "idle"
    /\ argValue = <<>>
    /\ argText = <<>>

HIdle ==
    /\ hookPc = "idle"
    /\ webhookUrl = <<>>
    /\ webhooks = <<>>
    /\ existingWebhook = 0
    /\ hookRequests = 0
    /\ hookBefore = <<>>
    /\ hookCalls = <<>>

UIdle ==
    /\ uploadPc = "idle"
    /\ uploadOptions = ""
    /\ uploadTries = 0
    /\ uploadSeen = <<>>
    /\ uploadDelays = 0
    /\ uploadWarnings = <<>>
    /\ uploadOutcome = <<>>

\* the overlapping invocations of onWebhook
Invocations == {1, 2}
NotStarted == [pc |-> "idle", cachedItem |-> <<>>, tries |-> 0, hygraphItem |-> <<>>]
RIdle ==
    /\ reconciles = [i \in Invocations |-> NotStarted]
    /\ sharedCache = <<>>
    /\ remoteUpdatedAt = 0

(***************************************************************************)
(* onWebhook                                                               *)
(***************************************************************************)
\* documentInStages?.find((doc) => doc.stage === 'PUBLISHED')
RECURSIVE FindPublished(_)
FindPublished(docs) ==
    IF docs = <<>> THEN Undefined
    ELSE IF Head(docs).stage = "PUBLISHED" THEN Some(Head(docs))
    ELSE FindPublished(Tail(docs))

\* update: `!cachedItem || cachedItem.updatedAt < hygraphItem.updatedAt`
FreshUpdate_Always(item, cached) == TRUE
FreshUpdate_Leq(item, cached) ==
    cached = Undefined \/ cached[1].updatedAt <= item.updatedAt
FreshUpdate(item, cached) ==
    cached = Undefined \/ cached[1].updatedAt < item.updatedAt

\* publish: `!!publishedItem && publishedItem.updatedAt === hygraphItem.updatedAt`
FreshPublish_AnyPublished(item) ==
    FindPublished(item.documentInStages) # Undefined
FreshPublish(item) ==
    LET publishedItem == FindPublished(item.documentInStages)
    IN publishedItem # Undefined /\ publishedItem[1].updatedAt = item.updatedAt

\* unpublish: `!publishedItem`
FreshUnpublish_NoStages(item) ==
    item.documentInStages = <<>>
FreshUnpublish(item) ==
    FindPublished(item.documentInStages) = Undefined

IsNewerVersion(op, item, cached) ==
    IF op = "create" THEN TRUE
    ELSE IF op = "update" THEN FreshUpdate(item, cached)
    ELSE IF op = "publish" THEN FreshPublish(item)
    ELSE IF op = "unpublish" THEN FreshUnpublish(item)
    ELSE TRUE

\* `while (!gotNewerVersion && ++tries < 10)`: tries is incremented only when
\* the left operand holds
LoopAgain_OneMore(newer, t) == ~newer /\ t + 1 <= MaxTries
LoopAgain(newer, t) == ~newer /\ t + 1 < MaxTries
TriesAfter(newer, t) == IF newer THEN t ELSE t + 1

IsAsset(name) == name = "Asset"

\* whether a call of the single-item fetch sends a request: getEntryById
\* returns at once when getModelByName misses
SendsRequest_Always(name) == TRUE
SendsRequest(name) == IsAsset(name) \/ name \in KnownModels

CacheKey(name) == IF IsAsset(name) THEN "assets" ELSE "documents"
DeletedKey_Documents(name) == "deletedDocumentIds"
DeletedKey(name) == IF IsAsset(name) THEN "deletedAssetIds" ELSE "deletedDocumentIds"

\* convertAsset / convertDocument of the fetched item, as far as onWebhook
\* reads the result back from the cache
Convert(item) == [updatedAt |-> item.updatedAt, documentInStages |-> item.documentInStages]

\* cache.updateContent
ApplyUpdate(c, u) ==
    IF u.key \in {"assets", "documents"} THEN [c EXCEPT ![u.key] = Some(u.item)]
    ELSE IF u.key = "deletedAssetIds" THEN [c EXCEPT !["assets"] = Undefined]
    ELSE [c EXCEPT !["documents"] = Undefined]

NoItem == [updatedAt |-> 0, documentInStages |-> <<>>]

WInit ==
    /\ HIdle
    /\ RIdle
    /\ UIdle
    /\ EIdle
    /\ KIdle
    /\ AIdle
    /\ CIdle
    /\ wpc = "idle"
    /\ operation = "create"
    /\ modelName = "Asset"
    /\ cache \in {c \in [assets : {Undefined} \cup {Some(i) : i \in CachedItems},
                         documents : {Undefined} \cup {Some(i) : i \in CachedItems}] :
                    c.assets = Undefined \/ c.documents = Undefined}
    /\ cachedItem = Undefined
    /\ hygraphItem = Undefined
    /\ tries = 0
    /\ gotNewerVersion = FALSE
    /\ convertible = TRUE
    /\ numFetches = 0
    /\ numRequests = 0
    /\ numDelays = 0
    /\ warnings = <<>>
    /\ updates = <<>>

\* a delete notification: one updateContent, no fetch
ReceiveDelete(name) ==
    /\ wpc = "idle"
    /\ WFrame
    /\ operation' = "delete"
    /\ modelName' = name
    /\ LET u == [key |-> DeletedKey(name), item |-> NoItem]
       IN /\ updates' = Append(updates, u)
          /\ cache' = ApplyUpdate(cache, u)
    /\ wpc' = "done"
    /\ UNCHANGED <<cachedItem, hygraphItem, tries, gotNewerVersion, convertible,
                   numFetches, numRequests, numDelays, warnings>>

\* create/update/publish/unpublish up to the first await: read the cache and
\* call the single-item fetch (tries = 0: no delay)
ReceiveChange(op, name, conv) ==
    /\ wpc = "idle"
    /\ WFrame
    /\ op # "delete"
    /\ operation' = op
    /\ modelName' = name
    /\ convertible' = conv
    /\ cachedItem' = cache[CacheKey(name)]
    /\ tries' = 0
    /\ gotNewerVersion' = FALSE
    /\ numFetches' = numFetches + 1
    /\ numRequests' = numRequests + (IF SendsRequest(name) THEN 1 ELSE 0)
    /\ wpc' = "fetch"
    /\ UNCHANGED <<cache, hygraphItem, numDelays, warnings, updates>>

\* `if (!gotNewerVersion) { this.logger.warn(...) }`
WarnIfStale_Never(newer, warns) == warns
WarnIfStale(newer, warns) == IF newer THEN warns ELSE Append(warns, "stale")

\* the loop's exit: the warning, the conversion and the cache write
Finish_AlwaysWrites(item, newer, warns) ==
    /\ warnings' = WarnIfStale(newer, warns)
    /\ LET u == [key |-> CacheKey(modelName), item |-> Convert(item)]
       IN /\ updates' = Append(updates, u)
          /\ cache' = ApplyUpdate(cache, u)
    /\ wpc' = "done"
Finish(item, newer, warns) ==
    /\ warnings' = WarnIfStale(newer, warns)
    /\ IF IsAsset(modelName) \/ convertible
       THEN LET u == [key |-> CacheKey(modelName), item |-> Convert(item)]
            IN /\ updates' = Append(updates, u)
               /\ cache' = ApplyUpdate(cache, u)
       ELSE UNCHANGED <<updates, cache>>
    /\ wpc' = "done"

\* the single-item fetch returns nothing: the request failed (the client logs
\* a warning), the item is absent, or the model is unknown
FetchNothing_Retry(failed) ==
    /\ wpc = "fetch"
    /\ WFrame
    /\ failed => SendsRequest(modelName)
    /\ hygraphItem' = Undefined
    /\ warnings' = IF failed THEN Append(warnings, "fetchError") ELSE warnings
    /\ IF tries + 1 < MaxTries
       THEN /\ tries' = tries + 1
            /\ numDelays' = numDelays + 1
            /\ wpc' = "delay"
       ELSE /\ wpc' = "done"
            /\ UNCHANGED <<tries, numDelays>>
    /\ UNCHANGED <<operation, modelName, cache, cachedItem, gotNewerVersion,
                   convertible, numFetches, numRequests, updates>>
FetchNothing(failed) ==
    /\ wpc = "fetch"
    /\ WFrame
    /\ failed => SendsRequest(modelName)
    /\ hygraphItem' = Undefined
    /\ warnings' = IF failed THEN Append(warnings, "fetchError") ELSE warnings
    /\ wpc' = "done"
    /\ UNCHANGED <<operation, modelName, cache, cachedItem, tries, gotNewerVersion,
                   convertible, numFetches, numRequests, numDelays, updates>>

\* the single-item fetch returns an item: the rest of the loop body, and
\* either the next iteration up to its timeout or the loop's exit
FetchItem(item) ==
    /\ wpc = "fetch"
    /\ WFrame
    /\ SendsRequest(modelName)
    /\ hygraphItem' = item
    /\ LET newer == IsNewerVersion(operation, item, cachedItem)
       IN /\ gotNewerVersion' = newer
          /\ tries' = TriesAfter(newer, tries)
          /\ IF LoopAgain(newer, tries)
             THEN /\ numDelays' = numDelays + 1
                  /\ wpc' = "delay"
                  /\ UNCHANGED <<warnings, updates, cache>>
             ELSE /\ Finish(item, newer, warnings)
                  /\ UNCHANGED numDelays
    /\ UNCHANGED <<operation, modelName, cachedItem, convertible, numFetches, numRequests>>

\* the 500ms timeout fires: call the single-item fetch again
DelayDone ==
    /\ wpc = "delay"
    /\ WFrame
    /\ numFetches' = numFetches + 1
    /\ numRequests' = numRequests + (IF SendsRequest(modelName) THEN 1 ELSE 0)
    /\ wpc' = "fetch"
    /\ UNCHANGED <<operation, modelName, cache, cachedItem, hygraphItem, tries,
                   gotNewerVersion, convertible, numDelays, warnings, updates>>

WNext ==
    \/ \E name \in TypeNames : ReceiveDelete(name)
    \/ \E op \in Operations, name \in TypeNames, conv \in BOOLEAN : ReceiveChange(op, name, conv)
    \/ \E failed \in BOOLEAN : FetchNothing(failed)
    \/ \E item \in HygraphItems : FetchItem(item)
    \/ DelayDone

SpecWebhook == WInit /\ [][WNext]_vars

WIdle ==
    /\ wpc = "idle"
    /\ operation = "create"
    /\ modelName = "Asset"
    /\ cache = [assets |-> Undefined, documents |-> Undefined]
    /\ cachedItem = Undefined
    /\ hygraphItem = Undefined
    /\ tries = 0
    /\ gotNewerVersion = FALSE
    /\ convertible = TRUE
    /\ numFetches = 0
    /\ numRequests = 0
    /\ numDelays = 0
    /\ warnings = <<>>
    /\ updates = <<>>

(***************************************************************************)
(* onWebhook: update notifications for one document that overlap           *)
(***************************************************************************)
\* the item the content API holds at a time; an update leaves its stages alone
ItemAt(t) == [updatedAt |-> t, documentInStages |-> <<>>]

RInit ==
    /\ HIdle
    /\ UIdle
    /\ WIdle
    /\ EIdle
    /\ CIdle
    /\ KIdle
    /\ AIdle
    /\ reconciles = [i \in Invocations |-> NotStarted]
    /\ sharedCache \in {Undefined, Some(Convert(ItemAt(0)))}
    /\ remoteUpdatedAt = 0

\* the document is edited on the content API and the update notification
\* arrives: the invocation reads the cache and calls getEntryById
NotifyUpdate(i) ==
    /\ RFrame
    /\ reconciles[i].pc = "idle"
    /\ remoteUpdatedAt < MaxTime
    /\ remoteUpdatedAt' = remoteUpdatedAt + 1
    /\ reconciles' = [reconciles EXCEPT ![i] =
            [pc |-> "fetch", cachedItem |-> sharedCache, tries |-> 0, hygraphItem |-> <<>>]]
    /\ UNCHANGED sharedCache

\* getEntryById returns nothing: the invocation returns
OverlapFetchNothing(i) ==
    /\ RFrame
    /\ reconciles[i].pc = "fetch"
    /\ reconciles' = [reconciles EXCEPT ![i].pc = "done", ![i].hygraphItem = Undefined]
    /\ UNCHANGED <<sharedCache, remoteUpdatedAt>>

\* getEntryById returns the item as of time t, the present or an earlier one
\* (a read of the content API may lag): the rest of the loop body, and either
\* the next iteration up to its timeout or the conversion and the cache write
OverlapFetchItem(i, t) ==
    /\ RFrame
    /\ reconciles[i].pc = "fetch"
    /\ t <= remoteUpdatedAt
    /\ LET r == reconciles[i]
           newer == IsNewerVersion("update", ItemAt(t), r.cachedItem)
       IN IF LoopAgain(newer, r.tries)
          THEN /\ reconciles' = [reconciles EXCEPT ![i] =
                      [r EXCEPT !.pc = "delay", !.tries = TriesAfter(newer, r.tries),
                                !.hygraphItem = Some(ItemAt(t))]]
               /\ UNCHANGED sharedCache
          ELSE /\ reconciles' = [reconciles EXCEPT ![i] =
                      [r EXCEPT !.pc = "done", !.tries = TriesAfter(newer, r.tries),
                                !.hygraphItem = Some(ItemAt(t))]]
               /\ sharedCache' = Some(Convert(ItemAt(t)))
    /\ UNCHANGED remoteUpdatedAt

\* the 500ms timeout of an invocation fires: it calls getEntryById again
OverlapDelayDone(i) ==
    /\ RFrame
    /\ reconciles[i].pc = "delay"
    /\ reconciles' = [reconciles EXCEPT ![i].pc = "fetch"]
    /\ UNCHANGED <<sharedCache, remoteUpdatedAt>>

RNext ==
    \/ \E i \in Invocations : NotifyUpdate(i)
    \/ \E i \in Invocations : OverlapFetchNothing(i)
    \/ \E i \in Invocations, t \in Times : OverlapFetchItem(i, t)
    \/ \E i \in Invocations : OverlapDelayDone(i)

SpecOverlap == RInit /\ [][RNext]_vars

(***************************************************************************)
(* createWebhookIfNeeded                                                   *)
(***************************************************************************)
WebhookUrls == {"u", "v"}
Webhook(url, isActive) == [url |-> url, isActive |-> isActive]
\* the webhooks an environment holds before the first call
WebhookLists == SeqsUpTo([url : WebhookUrls, isActive : BOOLEAN], MaxWebhooks)

\* result.webhooks.find((webhook) => webhook.url === webhookUrl): the place of
\* the first match, 0 when there is none
FindWebhook_Never(list, url) == 0
RECURSIVE FindWebhook(_, _)
FindWebhook(list, url) ==
    IF list = <<>> THEN 0
    ELSE IF Head(list).url = url THEN 1
    ELSE LET rest == FindWebhook(Tail(list), url)
         IN IF rest = 0 THEN 0 ELSE rest + 1

\* a call that ended: its argument, the webhooks before and after it, the
\* requests it sent, and whether it returned (it did not throw)
HookCall(completed) ==
    [url |-> webhookUrl', before |-> hookBefore', after |-> webhooks',
     requests |-> hookRequests', completed |-> completed]
HookEnds(completed) ==
    /\ hookCalls' = Append(hookCalls, HookCall(completed))
    /\ hookPc' = "idle"

HInit ==
    /\ WIdle
    /\ EIdle
    /\ CIdle
    /\ KIdle
    /\ AIdle
    /\ RIdle
    /\ UIdle
    /\ hookPc = "idle"
    /\ webhookUrl = <<>>
    /\ webhooks \in WebhookLists
    /\ existingWebhook = 0
    /\ hookRequests = 0
    /\ hookBefore = <<>>
    /\ hookCalls = <<>>

\* the call without a URL: a warning, no request
CallWithoutUrl ==
    /\ HFrame
    /\ hookPc = "idle"
    /\ Len(hookCalls) < MaxCalls
    /\ webhookUrl' = Undefined
    /\ hookBefore' = webhooks
    /\ hookRequests' = 0
    /\ existingWebhook' = 0
    /\ UNCHANGED webhooks
    /\ HookEnds(TRUE)

\* the call with a URL, up to the request of getWebhooks
CallWithUrl(url) ==
    /\ HFrame
    /\ hookPc = "idle"
    /\ Len(hookCalls) < MaxCalls
    /\ webhookUrl' = Some(url)
    /\ hookBefore' = webhooks
    /\ hookRequests' = 1
    /\ existingWebhook' = 0
    /\ hookPc' = "getWebhooks"
    /\ UNCHANGED <<webhooks, hookCalls>>

\* getWebhooks returns the webhooks: the find and the branch taken on it, up
\* to the request of updateWebhook or createWebhook, or the return
GetWebhooksReturns ==
    /\ HFrame
    /\ hookPc = "getWebhooks"
    /\ UNCHANGED <<webhookUrl, webhooks, hookBefore>>
    /\ LET found == FindWebhook(webhooks, webhookUrl[1])
       IN /\ existingWebhook' = found
          /\ IF found # 0 /\ webhooks[found].isActive
             THEN /\ UNCHANGED hookRequests
                  /\ HookEnds(TRUE)
             ELSE /\ hookRequests' = hookRequests + 1
                  /\ hookPc' = IF found # 0 THEN "updateWebhook" ELSE "createWebhook"
                  /\ UNCHANGED hookCalls

\* updateWebhook({ webhookId }) activates the webhook found
UpdateWebhookReturns ==
    /\ HFrame
    /\ hookPc = "updateWebhook"
    /\ webhooks' = [webhooks EXCEPT ![existingWebhook].isActive = TRUE]
    /\ UNCHANGED <<webhookUrl, existingWebhook, hookRequests, hookBefore>>
    /\ HookEnds(TRUE)

\* createWebhook adds a webhook of the URL, active or not
CreateWebhookReturns(isActive) ==
    /\ HFrame
    /\ hookPc = "createWebhook"
    /\ webhooks' = Append(webhooks, Webhook(webhookUrl[1], isActive))
    /\ UNCHANGED <<webhookUrl, existingWebhook, hookRequests, hookBefore>>
    /\ HookEnds(TRUE)

\* a request to the management API is rejected: no request of
\* createWebhookIfNeeded is sent in a try block, the call throws
HookRequestFails ==
    /\ HFrame
    /\ hookPc \in {"getWebhooks", "updateWebhook", "createWebhook"}
    /\ UNCHANGED <<webhookUrl, webhooks, existingWebhook, hookRequests, hookBefore>>
    /\ HookEnds(FALSE)

HNext ==
    \/ CallWithoutUrl
    \/ \E url \in WebhookUrls : CallWithUrl(url)
    \/ GetWebhooksReturns
    \/ UpdateWebhookReturns
    \/ \E isActive \in BOOLEAN : CreateWebhookReturns(isActive)
    \/ HookRequestFails

SpecHooks == HInit /\ [][HNext]_vars

(***************************************************************************)
(* uploadAsset                                                             *)
(***************************************************************************)
\* upload.status of an asset; "none" stands for an asset without `upload`
UploadStatuses == {"ASSET_CREATE_PENDING", "ASSET_UPLOAD_COMPLETE",
                   "ASSET_UPDATE_PENDING", "ASSET_ERROR_UPLOAD", "none"}
\* what getAssetById returns: an asset, or nothing
Nothing == "nothing"

\* `hygraphAsset.upload?.status === 'ASSET_CREATE_PENDING' && ++tries < 10`
PollAgain_OneMore(status, t) == status = "ASSET_CREATE_PENDING" /\ t + 1 <= UploadTries
PollAgain(status, t) == status = "ASSET_CREATE_PENDING" /\ t + 1 < UploadTries
\* tries after the loop's condition: the right operand runs only when the
\* left operand holds
PollTriesAfter(status, t) == IF status = "ASSET_CREATE_PENDING" THEN t + 1 ELSE t

UInit ==
    /\ WIdle
    /\ EIdle
    /\ CIdle
    /\ KIdle
    /\ AIdle
    /\ RIdle
    /\ HIdle
    /\ UIdle

\* uploadAsset is called, up to the await of client.uploadAsset
UploadCall(options) ==
    /\ UFrame
    /\ uploadPc = "idle"
    /\ uploadOptions' = options
    /\ uploadPc' = "create"
    /\ UNCHANGED <<uploadTries, uploadSeen, uploadDelays, uploadWarnings, uploadOutcome>>

\* client.uploadAsset returns no id, having logged a warning: uploadAsset throws
UploadRejected ==
    /\ UFrame
    /\ uploadPc = "create"
    /\ uploadWarnings' = Append(uploadWarnings, "uploadError")
    /\ uploadOutcome' = Some([raised |-> "Error uploading asset"])
    /\ uploadPc' = "ended"
    /\ UNCHANGED <<uploadOptions, uploadTries, uploadSeen, uploadDelays>>

\* client.uploadAsset returns the id: the first getAssetById (tries = 0: no delay)
UploadCreated ==
    /\ UFrame
    /\ uploadPc = "create"
    /\ uploadPc' = "fetch"
    /\ UNCHANGED <<uploadOptions, uploadTries, uploadSeen, uploadDelays, uploadWarnings,
                   uploadOutcome>>

\* getAssetById returns nothing: its request failed (the client logs a
\* warning) or the asset is absent; uploadAsset throws
UploadFetchNothing(failed) ==
    /\ UFrame
    /\ uploadPc = "fetch"
    /\ uploadSeen' = Append(uploadSeen, Nothing)
    /\ uploadWarnings' = IF failed THEN Append(uploadWarnings, "fetchError")
                          ELSE uploadWarnings
    /\ uploadOutcome' = Some([raised |-> "Error finding uploaded asset"])
    /\ uploadPc' = "ended"
    /\ UNCHANGED <<uploadOptions, uploadTries, uploadDelays>>

\* getAssetById returns an asset: the loop's condition, and either the next
\* iteration up to its timeout or the return of the converted asset
UploadFetchAsset(status) ==
    /\ UFrame
    /\ uploadPc = "fetch"
    /\ uploadSeen' = Append(uploadSeen, status)
    /\ uploadTries' = PollTriesAfter(status, uploadTries)
    /\ IF PollAgain(status, uploadTries)
       THEN /\ uploadDelays' = uploadDelays + 1
            /\ uploadPc' = "delay"
            /\ UNCHANGED uploadOutcome
       ELSE /\ uploadOutcome' = Some([returned |-> status])
            /\ uploadPc' = "ended"
            /\ UNCHANGED uploadDelays
    /\ UNCHANGED <<uploadOptions, uploadWarnings>>

\* the 500ms timeout fires: call getAssetById again
UploadDelayDone ==
    /\ UFrame
    /\ uploadPc = "delay"
    /\ uploadPc' = "fetch"
    /\ UNCHANGED <<uploadOptions, uploadTries, uploadSeen, uploadDelays, uploadWarnings,
                   uploadOutcome>>

UNext ==
    \/ \E options \in {"url", "base64"} : UploadCall(options)
    \/ UploadRejected
    \/ UploadCreated
    \/ \E failed \in BOOLEAN : UploadFetchNothing(failed)
    \/ \E status \in UploadStatuses : UploadFetchAsset(status)
    \/ UploadDelayDone

SpecUpload == UInit /\ [][UNext]_vars

(***************************************************************************)
(* Response objects and removeAliasFieldNames                              *)
(***************************************************************************)
\* a key of a response object: `name`, or `__<alias>_alias__<name>` when
\* alias # ""
Plain(name) == [alias |-> "", name |-> name]
Aliased(name, model) == [alias |-> model, name |-> name]

\* a response object: its __typename, its id, and its further keys in order,
\* each with the nested objects of its value
Leaf(key) == [key |-> key, nested |-> <<>>]

\* result[key] = value of _.mapKeys: a key already present keeps its place
\* and takes the later value
RECURSIVE PutKey(_, _)
PutKey(fields, f) ==
    IF fields = <<>> THEN <<f>>
    ELSE IF Head(fields).key = f.key THEN <<f>> \o Tail(fields)
    ELSE <<Head(fields)>> \o PutKey(Tail(fields), f)

\* fieldName.replace(new RegExp(`^__${value.__typename}_alias__`), '')
StripAlias_AnyType(key, typename) == Plain(key.name)
StripAlias(key, typename) ==
    IF key.alias # "" /\ key.alias = typename THEN Plain(key.name) ELSE key

RECURSIVE RemoveAliasFieldNames(_)
RECURSIVE MapKeys(_, _, _)
MapKeys(fields, typename, acc) ==
    IF fields = <<>> THEN acc
    ELSE LET f == Head(fields)
             g == [key |-> StripAlias(f.key, typename),
                   nested |-> [i \in 1..Len(f.nested) |-> RemoveAliasFieldNames(f.nested[i])]]
         IN MapKeys(Tail(fields), typename, PutKey(acc, g))
RemoveAliasFieldNames(entry) ==
    [entry EXCEPT !.fields = MapKeys(entry.fields, entry.typename, <<>>)]

(***************************************************************************)
(* The content API's connections                                           *)
(***************************************************************************)
ModelPool == {"Page", "Post"}

\* the k-th entry of a model as the content API returns it: a plain field and
\* a polymorphic field whose object, a Card or a Banner in turn, carries keys
\* aliased for the two candidates
NestedTypeOf(k) == IF k % 2 = 1 THEN "Card" ELSE "Banner"
NodeOf(model, k) ==
    [typename |-> model,
     id |-> <<model, k>>,
     fields |-> <<Leaf(Plain("title")),
                  [key |-> Plain("hero"),
                   nested |-> <<[typename |-> NestedTypeOf(k),
                                 id |-> <<NestedTypeOf(k), k>>,
                                 fields |-> <<Leaf(Aliased("title", "Card")),
                                              Leaf(Aliased("title", "Banner"))>>]>>]>>]

Min(a, b) == IF a < b THEN a ELSE b

\* the connection of one model for `first` and `skip`
Connection(model, total, fst, skip) ==
    LET last == Min(skip + fst, total)
        edges == [i \in 1..(IF last > skip THEN last - skip ELSE 0) |-> NodeOf(model, skip + i)]
    IN [edges |-> edges,
        pageInfo |-> [hasNextPage |-> skip + fst < total, pageSize |-> Len(edges)]]

(***************************************************************************)
(* HygraphApiClient.getEntries                                             *)
(***************************************************************************)
\* `first: maxPaginationSize ?? 100`
First(maxPaginationSize) ==
    IF maxPaginationSize = Undefined THEN DefaultPageSize ELSE maxPaginationSize[1]

\* `skip += modelResult.pageInfo.pageSize`
NextSkip_Unchanged(skip, pageInfo) == skip
NextSkip_ByOne(skip, pageInfo) == skip + 1
NextSkip(skip, pageInfo) == skip + pageInfo.pageSize

\* `if (modelResult.pageInfo.hasNextPage) typesWithNextPage.push(...)`
KeepsQuerying_Never(pageInfo) == FALSE
KeepsQuerying_Always(pageInfo) == pageInfo.pageSize > 0
KeepsQuerying(pageInfo) == pageInfo.hasNextPage

\* `result.push(...hygraphEntries)`
PushAll_DropLast(acc, entries) ==
    acc \o (IF entries = <<>> THEN <<>> ELSE SubSeq(entries, 1, Len(entries) - 1))
PushAll(acc, entries) == acc \o entries

\* the for loop over the response of one round, from its idx-th connection:
\* the accumulator and the connections picked for the next round
RECURSIVE MergeRound(_, _, _, _)
MergeRound(query, idx, acc, picked) ==
    IF idx > Len(query) THEN [result |-> acc, query |-> picked]
    ELSE LET q == query[idx]
             modelResult == Connection(q.model, serverTotals[q.model], first, q.skip)
             hygraphEntries == [i \in 1..Len(modelResult.edges) |->
                                   RemoveAliasFieldNames(modelResult.edges[i])]
         IN MergeRound(query, idx + 1, PushAll(acc, hygraphEntries),
                       IF KeepsQuerying(modelResult.pageInfo)
                       THEN Append(picked, [q EXCEPT !.skip = NextSkip(q.skip, modelResult.pageInfo)])
                       ELSE picked)

\* sequences of distinct models
ModelLists == {s \in SeqsUpTo(ModelPool, Cardinality(ModelPool)) :
                  \A i, j \in 1..Len(s) : i # j => s[i] # s[j]}

EInit ==
    /\ HIdle
    /\ RIdle
    /\ UIdle
    /\ WIdle
    /\ EIdle
    /\ KIdle
    /\ AIdle
    /\ CIdle

\* the call up to the first request: one connection per data model, skip 0
GetEntries(models, totals, maxPaginationSize) ==
    /\ epc = "idle"
    /\ EFrame
    /\ dataModels' = models
    /\ serverTotals' = totals
    /\ first' = First(maxPaginationSize)
    /\ queryAst' = [i \in 1..Len(models) |-> [model |-> models[i], skip |-> 0]]
    /\ result' = <<>>
    /\ numRounds' = 1
    /\ epc' = "request"
    /\ UNCHANGED <<returned, numResponses, entryWarnings>>

\* the response of a round arrives: merge it, then either send the next
\* round's request or return the accumulator
RoundResponse ==
    /\ epc = "request"
    /\ EFrame
    /\ numResponses' = numResponses + 1
    /\ LET merged == MergeRound(queryAst, 1, result, <<>>)
       IN /\ result' = merged.result
          /\ queryAst' = merged.query
          /\ IF Len(merged.query) > 0
             THEN /\ numRounds' = numRounds + 1
                  /\ UNCHANGED <<epc, returned>>
             ELSE /\ returned' = Some(merged.result)
                  /\ epc' = "done"
                  /\ UNCHANGED numRounds
    /\ UNCHANGED <<dataModels, serverTotals, first, entryWarnings>>

\* the request of a round fails: the catch block
RoundFails_ReturnsPartial ==
    /\ epc = "request"
    /\ EFrame
    /\ numResponses' = numResponses + 1
    /\ entryWarnings' = Append(entryWarnings, "Error fetching entries")
    /\ returned' = Some(result)
    /\ epc' = "done"
    /\ UNCHANGED <<dataModels, serverTotals, first, queryAst, result, numRounds>>
RoundFails ==
    /\ epc = "request"
    /\ EFrame
    /\ numResponses' = numResponses + 1
    /\ entryWarnings' = Append(entryWarnings, "Error fetching entries")
    /\ returned' = Some(<<>>)
    /\ epc' = "done"
    /\ UNCHANGED <<dataModels, serverTotals, first, queryAst, result, numRounds>>

ENext ==
    \/ \E models \in ModelLists, totals \in [ModelPool -> 0..MaxItems],
          mps \in {Undefined} \cup {Some(n) : n \in 1..MaxPageSize} :
            GetEntries(models, totals, mps)
    \/ RoundResponse
    \/ RoundFails

SpecEntries == EInit /\ [][ENext]_vars

\* every request awaited is answered or rejected in the end
SpecEntriesFair == SpecEntries /\ WF_vars(RoundResponse \/ RoundFails)

(***************************************************************************)
(* The operations of HygraphApiClient and their failures                   *)
(***************************************************************************)
ListOps == {"getEntries", "getAssets"}
ByIdOps == {"getEntryById", "getAssetById"}
ReadOps == {"getSchema"} \cup ListOps \cup ByIdOps
WriteOps == {"createEntry", "updateEntry", "deleteEntry", "publishEntry", "unpublishEntry"}
ClientOps == ReadOps \cup WriteOps

\* whether the request of an operation is sent inside a try block
HasCatch(op) == op # "getSchema"
\* whether the catch block of an operation throws a new Error
Rethrows_EveryWrite(op) == op \in WriteOps
Rethrows(op) == op \in {"createEntry", "updateEntry", "deleteEntry"}
\* what the catch block of an operation returns when it does not throw
FailureValue(op) ==
    CASE op \in ListOps -> "empty"
      [] op \in ByIdOps -> "absent"
      [] OTHER -> "void"
\* what an operation returns when its requests succeed
SuccessValue(op) ==
    CASE op = "getSchema" -> "schema"
      [] op \in ListOps -> "items"
      [] op \in ByIdOps -> "item"
      [] op = "createEntry" -> "id"
      [] OTHER -> "void"

\* how an operation ended: whether a request of it failed, whether it threw
\* to its caller, what it returned otherwise, and the warnings it logged
Outcome(op, failed, raised, value, warned) ==
    [op |-> op, failed |-> failed, raised |-> raised, value |-> value, warned |-> warned]
Ends(outcome) ==
    /\ clientOutcomes' = Append(clientOutcomes, outcome)
    /\ clientWarnings' = IF outcome.warned > 0
                          THEN Append(clientWarnings, outcome.op) ELSE clientWarnings
    /\ clientPc' = "idle"
    /\ UNCHANGED <<clientOp, clientRounds>>

\* an operation is called and sends its first request
ClientCall(op) ==
    /\ KFrame
    /\ clientPc = "idle"
    /\ Len(clientOutcomes) < MaxCalls
    /\ clientOp' = op
    /\ clientRounds' = 1
    /\ clientPc' = "request"
    /\ UNCHANGED <<clientWarnings, clientOutcomes>>

\* a list operation gets a page that reports hasNextPage and requests the next
ClientNextPage ==
    /\ KFrame
    /\ clientPc = "request"
    /\ clientOp \in ListOps
    /\ clientRounds < MaxRounds
    /\ clientRounds' = clientRounds + 1
    /\ UNCHANGED <<clientPc, clientOp, clientWarnings, clientOutcomes>>

\* the request succeeds and the operation returns
ClientReturns ==
    /\ KFrame
    /\ clientPc = "request"
    /\ Ends(Outcome(clientOp, FALSE, FALSE, SuccessValue(clientOp), 0))

\* createEntry: the response holds no entry; the Error thrown inside the try
\* block is caught, logged and thrown again
ClientNoEntry ==
    /\ KFrame
    /\ clientPc = "request"
    /\ clientOp = "createEntry"
    /\ Ends(Outcome(clientOp, FALSE, TRUE, "none", 1))

\* the request fails
ClientRequestFails ==
    /\ KFrame
    /\ clientPc = "request"
    /\ Ends(IF ~HasCatch(clientOp) THEN Outcome(clientOp, TRUE, TRUE, "none", 0)
            ELSE IF Rethrows(clientOp) THEN Outcome(clientOp, TRUE, TRUE, "none", 1)
            ELSE Outcome(clientOp, TRUE, FALSE, FailureValue(clientOp), 1))

KInit ==
    /\ HIdle
    /\ RIdle
    /\ UIdle
    /\ WIdle
    /\ EIdle
    /\ CIdle
    /\ KIdle
    /\ AIdle

KNext ==
    \/ \E op \in ClientOps : ClientCall(op)
    \/ ClientNextPage
    \/ ClientReturns
    \/ ClientNoEntry
    \/ ClientRequestFails

SpecClient == KInit /\ [][KNext]_vars

(***************************************************************************)
(* serializeQueryArgValue and serializeQueryArgObject                      *)
(***************************************************************************)
\* an argument value: a string (its characters), a number, an array (its
\* items) or a plain object (its entries, in insertion order); the text a
\* serializer emits is the sequence of its pieces, one per character of a
\* string value
ArgStr(chars) == [k |-> "string", text |-> chars, n |-> 0, items |-> <<>>]
ArgNum(n) == [k |-> "number", text |-> <<>>, n |-> n, items |-> <<>>]
ArgArr(items) == [k |-> "array", text |-> <<>>, n |-> 0, items |-> items]
ArgObj(entries) == [k |-> "object", text |-> <<>>, n |-> 0, items |-> entries]
ArgEntry(key, val) == [key |-> key, val |-> val]
\* `{ enum: 'DRAFT' }`
ArgEnum(name) == ArgObj(<<ArgEntry("enum", ArgStr(<<name>>))>>)

\* value.enum: the last entry named `enum`, <<>> when there is none
RECURSIVE EnumOf(_)
EnumOf(entries) ==
    IF entries = <<>> THEN Undefined
    ELSE IF entries[Len(entries)].key = "enum" THEN Some(entries[Len(entries)].val)
    ELSE EnumOf(SubSeq(entries, 1, Len(entries) - 1))

\* `if (value.enum)`: the property is there and is truthy
Truthy(v) ==
    CASE v.k = "string" -> v.text # <<>>
      [] v.k = "number" -> v.n # 0
      [] OTHER -> TRUE
HasEnum(v) == EnumOf(v.items) # Undefined /\ Truthy(EnumOf(v.items)[1])

\* value.replace(/"/g, '\\"').replace(/\n/g, '\\n')
RECURSIVE EscapeQuotes(_)
EscapeQuotes(chars) ==
    IF chars = <<>> THEN <<>>
    ELSE (IF Head(chars) = "\"" THEN <<"\\", "\"">> ELSE <<Head(chars)>>)
            \o EscapeQuotes(Tail(chars))
RECURSIVE EscapeNewlines(_)
EscapeNewlines(chars) ==
    IF chars = <<>> THEN <<>>
    ELSE (IF Head(chars) = "\n" THEN <<"\\", "n">> ELSE <<Head(chars)>>)
            \o EscapeNewlines(Tail(chars))

\* Array.prototype.join
RECURSIVE Join(_, _)
Join(texts, sep) ==
    IF texts = <<>> THEN <<>>
    ELSE IF Len(texts) = 1 THEN texts[1]
    ELSE texts[1] \o <<sep>> \o Join(Tail(texts), sep)

RECURSIVE SerializeQueryArgValue(_)
RECURSIVE SerializeQueryArgObject(_)
RECURSIVE ReduceEntries_TrailingComma(_, _)
RECURSIVE ReduceEntries(_, _)

\* the text of a raw value as the template literal renders it
RawText(v) == IF v.k = "number" THEN <<ToString(v.n)>> ELSE v.text

SerializeQueryArgValue(value) ==
    CASE value.k = "array" ->
            <<"[">> \o Join([i \in 1..Len(value.items) |->
                                SerializeQueryArgValue(value.items[i])], ", ") \o <<"]">>
      [] value.k = "object" ->
            IF HasEnum(value) THEN RawText(EnumOf(value.items)[1])
            ELSE SerializeQueryArgObject(value)
      [] value.k = "string" ->
            <<"\"">> \o EscapeNewlines(EscapeQuotes(value.text)) \o <<"\"">>
      [] OTHER -> RawText(value)

\* the _.reduce of serializeQueryArgObject over the entries, from `result`
ReduceEntries_TrailingComma(entries, acc) ==
    IF entries = <<>> THEN acc
    ELSE ReduceEntries_TrailingComma(Tail(entries),
            acc \o <<Head(entries).key, ": ">> \o SerializeQueryArgValue(Head(entries).val)
                \o <<", ">>)
ReduceEntries(entries, acc) ==
    IF entries = <<>> THEN acc
    ELSE ReduceEntries(Tail(entries),
            acc \o (IF acc # <<>> THEN <<", ">> ELSE <<>>)
                \o <<Head(entries).key, ": ">> \o SerializeQueryArgValue(Head(entries).val))

SerializeQueryArgObject(object) ==
    <<"{ ">> \o ReduceEntries(object.items, <<>>) \o <<" }">>

\* the argument values serialized: strings over the letter n, the double quote,
\* the newline and the backslash; numbers; enum-tagged objects (one of them
\* with the empty string, which is not truthy); objects and arrays of up to
\* two of a few of those; and objects and arrays nested in an object or an
\* array
Chars == {"n", "\"", "\n", "\\"}
ArgStrings == {ArgStr(chars) : chars \in SeqsUpTo(Chars, MaxChars)}
ArgScalars ==
    ArgStrings \cup {ArgNum(0), ArgNum(100), ArgEnum("DRAFT")}
        \cup {ArgObj(<<ArgEntry("enum", ArgStr(chars))>>) : chars \in SeqsUpTo(Chars, 1)}
ArgItems ==
    {ArgStr(<<>>), ArgStr(<<"a">>), ArgStr(<<"\"", "\n">>), ArgNum(100), ArgEnum("DRAFT")}
ArgKeys == <<"id", "data">>
ArgFlat ==
    UNION {{ArgArr(values),
            ArgObj([i \in 1..Len(values) |-> ArgEntry(ArgKeys[i], values[i])])} :
           values \in SeqsUpTo(ArgItems, 2)}
ArgNested ==
    UNION {{ArgArr(<<value>>),
            ArgObj(<<ArgEntry("stage", ArgEnum("DRAFT")), ArgEntry("where", value)>>)} :
           value \in ArgFlat}
ArgValues == ArgScalars \cup ArgFlat \cup ArgNested

AInit ==
    /\ HIdle
    /\ RIdle
    /\ UIdle
    /\ WIdle
    /\ EIdle
    /\ CIdle
    /\ KIdle
    /\ argPc = "idle"
    /\ argValue \in ArgValues
    /\ argText = <<>>

\* serializeQueryArgValue is applied to the value
SerializeArg ==
    /\ AFrame
    /\ argPc = "idle"
    /\ argText' = SerializeQueryArgValue(argValue)
    /\ argPc' = "done"
    /\ UNCHANGED argValue

ANext == SerializeArg

SpecArgs == AInit /\ [][ANext]_vars

(***************************************************************************)
(* The query AST                                                           *)
(***************************************************************************)
\* a node: `1` ("one"), an alias string ("str"), a nested object ("obj",
\* with its __alias if any) or the __on map of inline fragments ("on"); the
\* keys of an object or of __on are kept in insertion order
NoAlias == Plain("")
One == [t |-> "one", alias |-> NoAlias, args |-> Undefined, fields |-> <<>>]
Str(a) == [t |-> "str", alias |-> a, args |-> Undefined, fields |-> <<>>]
Obj(fields) == [t |-> "obj", alias |-> NoAlias, args |-> Undefined, fields |-> fields]
On(branches) == [t |-> "on", alias |-> NoAlias, args |-> Undefined, fields |-> branches]
\* an object with __arguments
ObjArgs(arguments, fields) == [Obj(fields) EXCEPT !.args = Some(arguments)]
Entry(k, v) == [key |-> k, val |-> v]

\* object spread and assignment: `{ ...base, ...more }`
RECURSIVE PutAll(_, _)
PutAll(base, more) ==
    IF more = <<>> THEN base
    ELSE PutAll(PutKey(base, Head(more)), Tail(more))

AliasForFieldName_Swapped(fieldName, model) == Aliased(model, fieldName)
AliasForFieldName(fieldName, model) == Aliased(fieldName, model)

\* _.mapValues(modelFields, ...): alias all fields of a fragment
AliasedModelFields_PrimitivesOnly(modelFields, model) ==
    [i \in 1..Len(modelFields) |->
        LET f == modelFields[i]
        IN IF f.val.t = "one"
           THEN Entry(f.key, Str(AliasForFieldName(f.key, model)))
           ELSE f]
AliasedModelFields(modelFields, model) ==
    [i \in 1..Len(modelFields) |->
        LET f == modelFields[i]
        IN IF f.val.t = "one"
           THEN Entry(f.key, Str(AliasForFieldName(f.key, model)))
           ELSE Entry(f.key, [f.val EXCEPT !.alias = AliasForFieldName(f.key, model)])]

\* a line of the query text: its nesting level (two spaces each) and either
\* `... on <name> {` ("fragment"), `<alias>: <name>(<args>) {` ("open", alias
\* and arguments if any), `<alias>: <name>` ("field", alias if any) or `}`
Line(level, kind, alias, name, args) ==
    [level |-> level, kind |-> kind, alias |-> alias, name |-> name, args |-> args]

\* the _.reduce over __arguments, joined with ', '
ArgumentsText(arguments) ==
    Join([i \in 1..Len(arguments) |->
            <<arguments[i].key, ": ">> \o SerializeQueryArgValue(arguments[i].val)], ", ")

RECURSIVE ConvertASTToQuery(_, _)
RECURSIVE FragmentLines_Unclosed(_, _)
RECURSIVE FragmentLines(_, _)
\* the inline fragments of an __on map
FragmentLines_Unclosed(branches, level) ==
    IF branches = <<>> THEN <<>>
    ELSE <<Line(level, "fragment", NoAlias, Head(branches).key, Undefined)>>
            \o ConvertASTToQuery(Head(branches).val.fields, level + 1)
            \o FragmentLines_Unclosed(Tail(branches), level)
FragmentLines(branches, level) ==
    IF branches = <<>> THEN <<>>
    ELSE <<Line(level, "fragment", NoAlias, Head(branches).key, Undefined)>>
            \o ConvertASTToQuery(Head(branches).val.fields, level + 1)
            \o <<Line(level, "close", NoAlias, "", Undefined)>>
            \o FragmentLines(Tail(branches), level)

ConvertASTToQuery(queryAST, level) ==
    IF queryAST = <<>> THEN <<>>
    ELSE LET key == Head(queryAST).key
             value == Head(queryAST).val
             lines ==
                 IF key = "__on" THEN FragmentLines(value.fields, level)
                 ELSE IF value.t = "obj"
                 THEN <<Line(level, "open", value.alias, key,
                             IF value.args = Undefined THEN Undefined
                             ELSE Some(ArgumentsText(value.args[1])))>>
                        \o ConvertASTToQuery(value.fields, level + 1)
                        \o <<Line(level, "close", NoAlias, "", Undefined)>>
                 ELSE IF value.t = "str"
                 THEN <<Line(level, "field", value.alias, key, Undefined)>>
                 ELSE <<Line(level, "field", NoAlias, key, Undefined)>>
         IN lines \o ConvertASTToQuery(Tail(queryAST), level)

\* value.charAt(0).toLowerCase() + value.slice(1), for the names of the models
ToLowerCaseFirst(value) ==
    CASE value = "A" -> "a"
      [] value = "B" -> "b"
      [] OTHER -> value

\* the selection of a document around the fields of its model
DefaultDocumentQueryFields(modelFields) ==
    PutAll(<<Entry("__typename", One),
             Entry("id", One),
             Entry("createdAt", One),
             Entry("createdBy", Obj(<<Entry("id", One)>>)),
             Entry("updatedAt", One),
             Entry("updatedBy", Obj(<<Entry("id", One)>>)),
             Entry("publishedAt", One),
             Entry("publishedBy", Obj(<<Entry("id", One)>>)),
             Entry("stage", One),
             Entry("documentInStages",
                   ObjArgs(<<ArgEntry("stages", ArgEnum("PUBLISHED"))>>,
                           <<Entry("stage", One), Entry("updatedAt", One)>>))>>,
           modelFields)

(***************************************************************************)
(* convertFieldsToQueryAST                                                 *)
(***************************************************************************)
\* the ids getEntryById is asked for: a plain one, and one holding a double
\* quote and a newline
EntryIds == {<<"a">>, <<"\"", "\n">>}

TypePool == {"A", "B"}
\* names a `models` list may hold: the models of the schema and one that
\* getModelByName does not resolve
TargetNames == TypePool \cup {"X"}

\* a field, by the type of the field or of its list items
Field(name, type, list, multi, models) ==
    [name |-> name, type |-> type, list |-> list, isMultiModel |-> multi, models |-> models]
Scalar(name, type, list) == Field(name, type, list, FALSE, <<>>)

GetModelByName(name) ==
    IF name \in DOMAIN schema THEN Some(schema[name]) ELSE Undefined

\* `typeof visitedCount !== 'undefined' && visitedCount > 5`; the ledger holds
\* 0 for a model not yet visited
Elided_OneLater(visited, model) == visited[model] > VisitBound + 1
Elided(visited, model) == visited[model] > VisitBound

\* `{ ...visitedModelsCount, [modelName]: (visitedModelsCount[modelName] ?? 0) + 1 }`
Entered_Unchanged(visited, model) == visited
Entered(visited, model) == [visited EXCEPT ![model] = @ + 1]

\* an activation of convertFieldsToQueryAST: its model, the field of the for
\* loop, its ledger and fieldAst, and, within a multi-model field, the
\* candidate and accumulator of the reduce
NewFrame(model, visited) ==
    [model |-> model, idx |-> 1, visited |-> visited, fieldAst |-> <<>>,
     cand |-> 1, accum |-> <<>>]

Top == stack[Len(stack)]
FieldsOf(frame) == schema[frame.model]
AtField(frame) == frame.idx <= Len(FieldsOf(frame))
CurrentField(frame) == FieldsOf(frame)[frame.idx]
ReplaceTop(frame) == [stack EXCEPT ![Len(stack)] = frame]
NextField(frame, fieldAst) ==
    [frame EXCEPT !.idx = @ + 1, !.fieldAst = fieldAst, !.cand = 1, !.accum = <<>>]

\* the reduce of a multi-model reference field
RECURSIVE ReferenceBranches(_, _)
ReferenceBranches(models, accum) ==
    IF models = <<>> THEN accum
    ELSE ReferenceBranches(Tail(models),
            IF GetModelByName(Head(models)) = Undefined THEN accum
            ELSE PutKey(accum, Entry(Head(models), Obj(<<Entry("id", One)>>))))

\* the selection of a field that needs no recursive call; <<>> when the field
\* is left out
FixedSelection(field) ==
    CASE field.type = "richText" ->
            Some(Obj(<<Entry("__typename", One), Entry("markdown", One), Entry("text", One)>>))
      [] field.type = "color" ->
            Some(Obj(<<Entry("__typename", One), Entry("hex", One)>>))
      [] field.type = "image" ->
            Some(Obj(<<Entry("__typename", One), Entry("id", One)>>))
      [] field.type = "reference" ->
            IF field.isMultiModel
            THEN Some(Obj(<<Entry("__typename", One),
                            Entry("__on", On(ReferenceBranches(field.models, <<>>)))>>))
            ELSE IF Len(field.models) = 1
            THEN Some(Obj(<<Entry("__typename", One), Entry("id", One)>>))
            ELSE Undefined
      [] OTHER -> Some(One)

SetField(fieldAst, name, selection) ==
    IF selection = Undefined THEN fieldAst ELSE PutKey(fieldAst, Entry(name, selection[1]))

IsSingleModel(field) ==
    field.type = "model" /\ ~field.isMultiModel /\ Len(field.models) = 1
IsMultiModel(field) == field.type = "model" /\ field.isMultiModel

\* the guards of the steps of a running compilation
AtPlainField == cpc = "run" /\ AtField(Top) /\ CurrentField(Top).type # "model"
AtSingleField ==
    cpc = "run" /\ AtField(Top) /\ CurrentField(Top).type = "model"
        /\ ~CurrentField(Top).isMultiModel
AtCandidate ==
    cpc = "run" /\ AtField(Top) /\ IsMultiModel(CurrentField(Top))
        /\ Top.cand <= Len(CurrentField(Top).models)
AtReduceEnd ==
    cpc = "run" /\ AtField(Top) /\ IsMultiModel(CurrentField(Top))
        /\ Top.cand > Len(CurrentField(Top).models)
AtReturn == cpc = "run" /\ ~AtField(Top) /\ Len(stack) > 1
AtDone == cpc = "run" /\ ~AtField(Top) /\ Len(stack) = 1

\* whether a recursive call is made for a model: it was not visited too often
\* and getModelByName resolves it
Expands(visited, model) ==
    ~Elided(visited, model) /\ GetModelByName(model) # Undefined

\* a field of any kind but 'model'
PlainField ==
    /\ CFrame
    /\ AtPlainField
    /\ LET field == CurrentField(Top)
       IN stack' = ReplaceTop(NextField(Top, SetField(Top.fieldAst, field.name, FixedSelection(field))))
    /\ UNCHANGED <<cpc, schema, ast, entryModel, queryText>>

\* a single-model field that is left out: the model was visited too often or
\* is not resolved; or a 'model' field that is neither multi-model nor of one model
SingleSkip ==
    /\ CFrame
    /\ AtSingleField
    /\ IF Len(CurrentField(Top).models) # 1 THEN TRUE
       ELSE ~Expands(Top.visited, CurrentField(Top).models[1])
    /\ stack' = ReplaceTop(NextField(Top, Top.fieldAst))
    /\ UNCHANGED <<cpc, schema, ast, entryModel, queryText>>

\* a single-model field: the recursive call
SingleCall ==
    /\ CFrame
    /\ AtSingleField
    /\ Len(CurrentField(Top).models) = 1
    /\ LET model == CurrentField(Top).models[1]
       IN /\ Expands(Top.visited, model)
          /\ stack' = Append(stack, NewFrame(model, Entered(Top.visited, model)))
    /\ UNCHANGED <<cpc, schema, ast, entryModel, queryText>>

\* a candidate of a multi-model field that yields no fragment
BranchSkip ==
    /\ CFrame
    /\ AtCandidate
    /\ ~Expands(Top.visited, CurrentField(Top).models[Top.cand])
    /\ stack' = ReplaceTop([Top EXCEPT !.cand = @ + 1])
    /\ UNCHANGED <<cpc, schema, ast, entryModel, queryText>>

\* a candidate of a multi-model field: the recursive call
BranchCall ==
    /\ CFrame
    /\ AtCandidate
    /\ LET model == CurrentField(Top).models[Top.cand]
       IN /\ Expands(Top.visited, model)
          /\ stack' = Append(stack, NewFrame(model, Entered(Top.visited, model)))
    /\ UNCHANGED <<cpc, schema, ast, entryModel, queryText>>

\* the reduce of a multi-model field is over: the field's selection
MultiEnd_SkipsEmpty ==
    /\ CFrame
    /\ AtReduceEnd
    /\ LET selection == Obj(<<Entry("__typename", One), Entry("__on", On(Top.accum))>>)
       IN stack' = ReplaceTop(NextField(Top,
                        IF Top.accum = <<>> THEN Top.fieldAst
                        ELSE PutKey(Top.fieldAst, Entry(CurrentField(Top).name, selection))))
    /\ UNCHANGED <<cpc, schema, ast, entryModel, queryText>>
MultiEnd ==
    /\ CFrame
    /\ AtReduceEnd
    /\ LET selection == Obj(<<Entry("__typename", One), Entry("__on", On(Top.accum))>>)
       IN stack' = ReplaceTop(NextField(Top, PutKey(Top.fieldAst, Entry(CurrentField(Top).name, selection))))
    /\ UNCHANGED <<cpc, schema, ast, entryModel, queryText>>

\* the caller's visitedModelsCount once a recursive call has returned: the
\* call was handed a copy made by object spread, the caller's own object is
\* never assigned to
LedgerAfterCall_Shared(caller, callee) == callee.visited
LedgerAfterCall(caller, callee) == caller.visited

\* a recursive call returns its fieldAst to the field that made it
Return ==
    /\ CFrame
    /\ AtReturn
    /\ LET callee == Top
           caller == [stack[Len(stack) - 1] EXCEPT
                        !.visited = LedgerAfterCall(stack[Len(stack) - 1], callee)]
           field == FieldsOf(caller)[caller.idx]
           resumed ==
               IF field.isMultiModel
               THEN [caller EXCEPT
                        !.accum = PutKey(@, Entry(callee.model,
                                    Obj(PutAll(<<Entry("id", One)>>,
                                               AliasedModelFields(callee.fieldAst, callee.model))))),
                        !.cand = @ + 1]
               ELSE NextField(caller,
                        PutKey(caller.fieldAst,
                               Entry(field.name,
                                     Obj(PutAll(<<Entry("__typename", One), Entry("id", One)>>,
                                                callee.fieldAst)))))
       IN stack' = Append(SubSeq(stack, 1, Len(stack) - 2), resumed)
    /\ UNCHANGED <<cpc, schema, ast, entryModel, queryText>>

\* the outermost call returns
Done ==
    /\ CFrame
    /\ AtDone
    /\ ast' = Top.fieldAst
    /\ stack' = <<>>
    /\ cpc' = "done"
    /\ UNCHANGED <<schema, entryModel, queryText>>

\* the queryAst getEntryById builds around the document selection
EntryByIdAst(entryId) ==
    LET queryModelName == ToLowerCaseFirst(entryModel)
        arguments == <<ArgEntry("stage", ArgEnum("DRAFT")),
                       ArgEntry("where", ArgObj(<<ArgEntry("id", ArgStr(entryId))>>))>>
    IN <<Entry("query",
               Obj(<<Entry(queryModelName,
                           ObjArgs(arguments, DefaultDocumentQueryFields(ast)))>>))>>

\* getEntryById builds its queryAst and serializes it
Serialize(entryId) ==
    /\ CFrame
    /\ cpc = "done"
    /\ queryText' = ConvertASTToQuery(EntryByIdAst(entryId), 0)
    /\ cpc' = "sent"
    /\ UNCHANGED <<schema, stack, ast, entryModel>>

\* the `models` lists: no model twice
TargetLists == {s \in SeqsUpTo(TargetNames, MaxModels) :
                   \A i, j \in 1..Len(s) : i # j => s[i] # s[j]}

\* the number of recursive calls a 'model' field can make
Fanout(multi, models) ==
    IF multi THEN Cardinality({i \in 1..Len(models) : models[i] \in TypePool})
    ELSE IF Len(models) = 1 /\ models[1] \in TypePool THEN 1 ELSE 0

\* the schemas compiled: each model has one 'model' field of any shape among
\* fields of the other kinds; the two fields make at most two recursive calls
\* between them (a model referencing itself or the other, a cycle of both, or
\* one field with both models as candidates)
Schemas ==
    {[A |-> <<Scalar("title", "string", FALSE),
              Field("blocks", "model", FALSE, multiA, modelsA),
              Field("related", "reference", TRUE, TRUE, <<"B", "X">>)>>,
      B |-> <<Field("items", "model", TRUE, multiB, modelsB),
              Scalar("title", "richText", FALSE),
              Scalar("tints", "color", TRUE),
              Scalar("cover", "image", FALSE),
              Field("owner", "reference", FALSE, FALSE, <<"X">>)>>] :
        <<multiA, modelsA, multiB, modelsB>> \in
            {q \in BOOLEAN \X TargetLists \X BOOLEAN \X TargetLists :
                Fanout(q[1], q[2]) + Fanout(q[3], q[4]) <= 2}}

\* schemas in which two fields of one model, `blocks` and `extra`, are
\* relations of the same shape to the same model B, which may reference itself
SiblingSchemas ==
    {[A |-> <<Scalar("title", "string", FALSE),
              Field("blocks", "model", FALSE, multiA, modelsA),
              Field("related", "reference", TRUE, TRUE, <<"B", "X">>),
              Field("extra", "model", TRUE, multiA, modelsA)>>,
      B |-> <<Field("items", "model", TRUE, FALSE, modelsB),
              Scalar("title", "richText", FALSE),
              Scalar("tints", "color", TRUE),
              Scalar("cover", "image", FALSE),
              Field("owner", "reference", FALSE, FALSE, <<"X">>)>>] :
        <<multiA, modelsA>> \in {<<FALSE, <<"B">> >>, <<TRUE, <<"B">> >>, <<TRUE, <<"X", "B">> >>},
        modelsB \in {<<>>, <<"B">>}}

CInit ==
    /\ HIdle
    /\ RIdle
    /\ UIdle
    /\ WIdle
    /\ EIdle
    /\ KIdle
    /\ AIdle
    /\ cpc = "idle"
    /\ schema \in Schemas \cup SiblingSchemas
    /\ stack = <<>>
    /\ ast = <<>>
    /\ entryModel = ""
    /\ queryText = <<>>

\* defaultDocumentQueryFields calls convertFieldsToQueryAST with an empty ledger
Compile(root) ==
    /\ CFrame
    /\ cpc = "idle"
    /\ stack' = <<NewFrame(root, [n \in TargetNames |-> 0])>>
    /\ entryModel' = root
    /\ cpc' = "run"
    /\ UNCHANGED <<schema, ast, queryText>>

CNext ==
    \/ \E root \in TypePool : Compile(root)
    \/ PlainField
    \/ SingleSkip
    \/ SingleCall
    \/ BranchSkip
    \/ BranchCall
    \/ MultiEnd
    \/ Return
    \/ Done
    \/ \E entryId \in EntryIds : Serialize(entryId)

SpecCompile == CInit /\ [][CNext]_vars


(***************************************************************************)
(* Claims about onWebhook                                                  *)
(***************************************************************************)
\* a create/update/publish/unpublish invocation that has returned
ChangeDone == wpc = "done" /\ operation # "delete"
\* the single updateContent call that writes `item` under the notified kind
WriteOf(item) == [key |-> CacheKey(modelName), item |-> Convert(item)]
CanConvert == IsAsset(modelName) \/ convertible
UpdateWithCached == operation = "update" /\ cachedItem # Undefined

\* C3 as stated: an update reconcile with a cached item of updatedAt T0 returns
\* an item only once a fetched updatedAt T1 > T0 has been observed.
C3_ReturnsOnlyFresh ==
    (ChangeDone /\ UpdateWithCached /\ hygraphItem # Undefined)
        => hygraphItem.updatedAt > cachedItem[1].updatedAt

\* C3 amended: for update with a cached item of updatedAt T0, a fetched item
\* with updatedAt > T0 ends the loop at that attempt, without a warning, and is
\* the item written (when it converts); a fetched item with updatedAt <= T0 is
\* never taken as fresh and leads to a delay and another attempt while fewer
\* than 10 fetches were made; an item is returned stale only by the 10th fetch.
C3_UpdateFreshness ==
    /\ [](UpdateWithCached /\ wpc = "delay"
            => hygraphItem.updatedAt <= cachedItem[1].updatedAt)
    /\ [](ChangeDone /\ UpdateWithCached /\ hygraphItem # Undefined
            => /\ gotNewerVersion <=> hygraphItem.updatedAt > cachedItem[1].updatedAt
               /\ ~gotNewerVersion => numFetches = MaxTries)
    /\ [][UpdateWithCached /\ wpc = "fetch" /\ hygraphItem' # Undefined
            => IF hygraphItem'.updatedAt > cachedItem[1].updatedAt
               THEN /\ wpc' = "done"
                    /\ warnings' = warnings
                    /\ updates' = IF CanConvert THEN <<WriteOf(hygraphItem')>> ELSE <<>>
               ELSE /\ numFetches < MaxTries => wpc' = "delay"
                    /\ wpc' = "delay" => updates' = <<>>]_vars

\* C3 witness: an update that saw a stale item first, then a newer one, and wrote it
C3_Witness ==
    /\ ChangeDone /\ UpdateWithCached /\ numFetches >= 2 /\ gotNewerVersion
    /\ hygraphItem.updatedAt > cachedItem[1].updatedAt
    /\ updates = <<WriteOf(hygraphItem)>>

\* the published-stage record of an item matches its own updatedAt
PublishPropagated(item) ==
    \E i \in 1..Len(item.documentInStages) :
        /\ item.documentInStages[i].stage = "PUBLISHED"
        /\ item.documentInStages[i].updatedAt = item.updatedAt

\* C4 as stated: a publish reconcile returns an item (and writes the cache) only
\* once the fetched item carries a PUBLISHED record with the item's own updatedAt.
C4_ReturnsOnlyPropagated ==
    (ChangeDone /\ operation = "publish" /\ hygraphItem # Undefined)
        => PublishPropagated(hygraphItem)

\* C4 amended: for publish, a fetched item is fresh iff it carries a PUBLISHED
\* record whose updatedAt equals its own; an item without one, or with another
\* timestamp, leads to a delay and another attempt while fewer than 10 fetches
\* were made, and is returned (and written) only by the 10th fetch, with a warning.
C4_PublishFreshness ==
    /\ [](operation = "publish" /\ wpc = "delay" => ~PublishPropagated(hygraphItem))
    /\ [](ChangeDone /\ operation = "publish" /\ hygraphItem # Undefined
            => /\ gotNewerVersion <=> PublishPropagated(hygraphItem)
               /\ ~gotNewerVersion => numFetches = MaxTries /\ warnings = <<"stale">>)
    /\ [][operation = "publish" /\ wpc = "fetch" /\ hygraphItem' # Undefined
            => IF PublishPropagated(hygraphItem')
               THEN /\ wpc' = "done"
                    /\ warnings' = warnings
                    /\ updates' = IF CanConvert THEN <<WriteOf(hygraphItem')>> ELSE <<>>
               ELSE /\ numFetches < MaxTries => wpc' = "delay"
                    /\ wpc' = "delay" => updates' = <<>>]_vars

\* C4 witness: a publish that first saw a PUBLISHED record of another timestamp
\* and returned once the record matched
C4_Witness ==
    /\ ChangeDone /\ operation = "publish" /\ numFetches >= 2 /\ gotNewerVersion
    /\ PublishPropagated(hygraphItem)
    /\ updates = <<WriteOf(hygraphItem)>>

\* every allowed attempt fetched an item that failed the predicate
Exhausted == ChangeDone /\ hygraphItem # Undefined /\ ~gotNewerVersion

\* C5: when all attempts fetch a stale item, the reconcile has made exactly 10
\* fetches, hands the item of the last fetch to the cache write (the only
\* updateContent call; none when the entry does not convert) and has logged
\* exactly one warning.
C5_ExhaustedWritesLast ==
    Exhausted =>
        /\ numFetches = MaxTries
        /\ warnings = <<"stale">>
        /\ updates = IF CanConvert THEN <<WriteOf(hygraphItem)>> ELSE <<>>
        /\ CanConvert => cache[CacheKey(modelName)] = Some(Convert(hygraphItem))

\* C5 witness: an exhausted update whose last fetched item differs from the
\* cached one and was written
C5_Witness ==
    /\ Exhausted /\ UpdateWithCached
    /\ hygraphItem.updatedAt < cachedItem[1].updatedAt
    /\ updates = <<WriteOf(hygraphItem)>>

\* C6: a reconcile makes at most 10 fetches; a delay precedes every fetch but
\* the first and none follows the last: while a delay is awaited as many delays
\* as fetches have started, otherwise one fewer.
C6_FetchesAndDelays ==
    /\ numFetches <= MaxTries
    /\ operation = "delete" \/ wpc = "idle" => numFetches = 0 /\ numDelays = 0
    /\ wpc = "delay" => numDelays = numFetches
    /\ wpc = "fetch" \/ ChangeDone => numDelays = numFetches - 1

\* C6 witness: a reconcile that used all 10 fetches and 9 delays
C6_Witness == ChangeDone /\ numFetches = MaxTries /\ numDelays = MaxTries - 1

\* C7: a fetch that returns nothing ends the reconcile at that attempt: no
\* further step follows, no staleness warning is logged and the cache and the
\* updateContent calls stay as they were.
C7_AbsentTerminates ==
    /\ [][wpc = "fetch" /\ hygraphItem' = Undefined
            => /\ wpc' = "done"
               /\ UNCHANGED <<cache, updates, numFetches, numRequests, numDelays>>
               /\ \A i \in 1..Len(warnings') : warnings'[i] # "stale"]_vars
    /\ [][wpc # "done"]_vars
    /\ [](ChangeDone /\ hygraphItem = Undefined => updates = <<>>)

\* C7 witness: a later attempt, after stale items, returned nothing
C7_Witness ==
    /\ ChangeDone /\ hygraphItem = Undefined /\ numFetches >= 2
    /\ updates = <<>> /\ warnings = <<>>

\* the freshness table of the specification
NoPublishedRecord(item) ==
    \A i \in 1..Len(item.documentInStages) : item.documentInStages[i].stage # "PUBLISHED"
FreshnessTable(op, item, cached) ==
    CASE op = "create" -> TRUE
      [] op = "update" -> Len(cached) = 0 \/ item.updatedAt > cached[1].updatedAt
      [] op = "unpublish" -> NoPublishedRecord(item)
      [] OTHER -> PublishPropagated(item)

\* C8: after every fetch that returned an item, gotNewerVersion is the table's
\* verdict for (operation, fetched item, cached item); a create reconcile that
\* fetched an item did exactly one fetch and no delay.
C8_FreshnessTable ==
    /\ (wpc \in {"delay", "done"} /\ operation # "delete" /\ hygraphItem # Undefined)
         => gotNewerVersion = FreshnessTable(operation, hygraphItem, cachedItem)
    /\ (operation = "create" /\ wpc # "idle")
         => numFetches = 1 /\ numDelays = 0 /\ wpc # "delay"

\* C8 witness: an unpublish that returned on an item carrying only a DRAFT
\* record, after an item that still carried a PUBLISHED one
C8_Witness ==
    /\ ChangeDone /\ operation = "unpublish" /\ gotNewerVersion /\ numFetches >= 2
    /\ hygraphItem.documentInStages # <<>>

\* the reconcile awaits a fetch or the 500ms timeout
Suspended == wpc \in {"fetch", "delay"}

\* C22: a reconcile only reads until its last step: while it awaits a fetch
\* or a delay no updateContent was called and the cache holds for the notified
\* id what was read at the start; no step that leaves the reconcile running
\* touches the cache; a notification leads to at most one updateContent call,
\* and to none when the item is absent or cannot be converted.
C22_ReadsUntilLastStep ==
    /\ [](Suspended => updates = <<>> /\ cache[CacheKey(modelName)] = cachedItem)
    /\ [](Len(updates) <= 1)
    /\ [](ChangeDone /\ (hygraphItem = Undefined \/ ~CanConvert) =>
            updates = <<>> /\ cache[CacheKey(modelName)] = cachedItem)
    /\ [][wpc' # "done" => UNCHANGED <<cache, updates>>]_vars
    /\ [][Suspended /\ updates' # updates =>
            /\ wpc' = "done"
            /\ hygraphItem' # Undefined
            /\ updates' = <<WriteOf(hygraphItem')>>]_vars

\* C22 witness: a reconcile that went through several fetches and delays and
\* then made its one write, which changed the cache
C22_Witness ==
    /\ ChangeDone /\ numFetches >= 3 /\ numDelays >= 2
    /\ Len(updates) = 1
    /\ cache[CacheKey(modelName)] # cachedItem

\* C25 as stated: while update notifications for one id are reconciled
\* concurrently, every cache write for the id carries an updatedAt that is not
\* lower than the one the cache held before the write.
C25_CachedNeverOlder ==
    [][(sharedCache' # sharedCache /\ sharedCache # Undefined)
            => sharedCache'[1].updatedAt >= sharedCache[1].updatedAt]_vars

DeleteDone == wpc = "done" /\ operation = "delete"

Writes(i) ==
    /\ reconciles[i].pc = "fetch" /\ reconciles'[i].pc = "done"
    /\ reconciles'[i].hygraphItem # Undefined
\* an invocation that returned after its 10th fetch without a newer version
OutOfTries(r) == r.tries = MaxTries

\* C25 amended: every cache write of an overlapping update reconcile carries
\* the item of its last fetch, whose updatedAt is greater than that of the
\* cached item the reconcile read at its own start unless its 10 fetches are
\* used up; the cache changes by such writes only; and a write leaves the
\* cache older than it was only if another reconcile wrote since the writer's
\* start or the writer used up its fetches.
C25_NewerThanOwnSnapshot ==
    /\ [][\A i \in Invocations : Writes(i) =>
            LET r == reconciles'[i]
            IN /\ sharedCache' = Some(Convert(r.hygraphItem[1]))
               /\ ~OutOfTries(r) =>
                    \/ r.cachedItem = Undefined
                    \/ r.hygraphItem[1].updatedAt > r.cachedItem[1].updatedAt]_vars
    /\ [][sharedCache' # sharedCache => \E i \in Invocations : Writes(i)]_vars
    /\ [][(sharedCache # Undefined /\ sharedCache' # Undefined
                /\ sharedCache'[1].updatedAt < sharedCache[1].updatedAt)
            => \E i \in Invocations :
                /\ Writes(i)
                /\ OutOfTries(reconciles'[i]) \/ reconciles[i].cachedItem # sharedCache]_vars

\* C25 witness: both reconciles read the cached item of time 0 and found a
\* newer version; the one that fetched time 2 wrote first, the one that
\* fetched the lagging time 1 wrote last
C25_Witness ==
    \E i, j \in Invocations :
        /\ i # j
        /\ reconciles[i].pc = "done" /\ reconciles[j].pc = "done"
        /\ reconciles[i].cachedItem = Some(Convert(ItemAt(0)))
        /\ reconciles[j].cachedItem = Some(Convert(ItemAt(0)))
        /\ ~OutOfTries(reconciles[i]) /\ ~OutOfTries(reconciles[j])
        /\ reconciles[i].hygraphItem = Some(ItemAt(2))
        /\ reconciles[j].hygraphItem = Some(ItemAt(1))
        /\ sharedCache = Some(Convert(ItemAt(1)))

(***************************************************************************)
(* Claims about createWebhookIfNeeded                                      *)
(***************************************************************************)
\* the places of the webhooks of a URL
MatchesOf(list, url) == {k \in 1..Len(list) : list[k].url = url}
\* the first of them
FirstMatch(list, url) ==
    CHOOSE k \in MatchesOf(list, url) : \A j \in MatchesOf(list, url) : k <= j

\* C27: a call changes the webhooks of the environment at most once, in the
\* step that ends it. Without a URL it sends no request. A call that returned:
\* when the webhook found for the URL is active nothing is changed; when it is
\* inactive that webhook is activated and nothing else; when there is none,
\* exactly one webhook of the URL is added. After a call with URL u that
\* returned, a later call with u adds no webhook.
C27_ChangesOnceIdempotent ==
    /\ [][webhooks' # webhooks =>
            hookPc \in {"updateWebhook", "createWebhook"} /\ hookPc' = "idle"]_vars
    /\ [](\A n \in 1..Len(hookCalls) :
            LET c == hookCalls[n]
            IN IF c.url = Undefined
               THEN c.requests = 0 /\ c.after = c.before /\ c.completed
               ELSE /\ c.requests \in 1..2
                    /\ c.completed =>
                         IF MatchesOf(c.before, c.url[1]) = {}
                         THEN /\ Len(c.after) = Len(c.before) + 1
                              /\ SubSeq(c.after, 1, Len(c.before)) = c.before
                              /\ c.after[Len(c.after)].url = c.url[1]
                              /\ c.requests = 2
                         ELSE LET k == FirstMatch(c.before, c.url[1])
                              IN IF c.before[k].isActive
                                 THEN c.after = c.before /\ c.requests = 1
                                 ELSE /\ c.after = [c.before EXCEPT ![k].isActive = TRUE]
                                      /\ c.requests = 2)
    /\ [](\A m, n \in 1..Len(hookCalls) :
            (m < n /\ hookCalls[m].completed /\ hookCalls[m].url # Undefined
                /\ hookCalls[n].url = hookCalls[m].url)
            => Len(hookCalls[n].after) = Len(hookCalls[n].before))

\* C27 witness: the first call found no webhook of its URL and created one,
\* inactive; the second call with the same URL activated it and created none
C27_Witness ==
    /\ Len(hookCalls) = 2
    /\ hookCalls[1].url = Some("u") /\ hookCalls[2].url = Some("u")
    /\ hookCalls[1].completed /\ hookCalls[2].completed
    /\ hookCalls[1].before = <<Webhook("v", FALSE)>>
    /\ hookCalls[1].after = <<Webhook("v", FALSE), Webhook("u", FALSE)>>
    /\ hookCalls[2].before = hookCalls[1].after
    /\ hookCalls[2].after = <<Webhook("v", FALSE), Webhook("u", TRUE)>>

(***************************************************************************)
(* Claims about getEntries                                                 *)
(***************************************************************************)
\* getEntries returned its accumulator: no request failed
EntriesReturned == epc = "done" /\ entryWarnings = <<>>

\* the number of pages of a model: it reports hasNextPage on all but the last
PagesOf(model) ==
    IF serverTotals[model] <= first THEN 1
    ELSE (serverTotals[model] + first - 1) \div first

MaxPages == CHOOSE n \in 1..(MaxItems + 1) :
    /\ \A i \in 1..Len(dataModels) : PagesOf(dataModels[i]) <= n
    /\ \E i \in 1..Len(dataModels) : PagesOf(dataModels[i]) = n

\* C9: over N >= 1 streams, a getEntries in which no request fails sends
\* exactly max_i(p_i) requests, and never more while it runs.
C9_RoundsAreMaxPages ==
    Len(dataModels) >= 1 =>
        /\ numRounds <= MaxPages
        /\ EntriesReturned => numRounds = MaxPages

\* C9 witness: two streams of two or more pages each, fetched in as many
\* requests as the longer one has pages (fewer than the sum)
C9_Witness ==
    /\ EntriesReturned /\ Len(dataModels) = 2
    /\ \A i \in 1..2 : PagesOf(dataModels[i]) >= 2
    /\ PagesOf(dataModels[1]) # PagesOf(dataModels[2])
    /\ numRounds = MaxPages

\* the round in which the k-th entry of a model is served, and the model's
\* place among the connections
RoundOf(id) == ((id[2] - 1) \div first) + 1
PlaceOf(id) == CHOOSE i \in 1..Len(dataModels) : dataModels[i] = id[1]
IdsOf(entries) == [i \in 1..Len(entries) |-> entries[i].id]

\* C10: when no request fails, the returned array holds every entry of every
\* queried model exactly once and nothing else, ordered by round, within a
\* round by the order of the connections, within a page by position.
C10_UnionInRoundOrder ==
    EntriesReturned =>
        LET ids == IdsOf(returned[1])
        IN /\ \A i \in 1..Len(dataModels) : \A k \in 1..serverTotals[dataModels[i]] :
                Cardinality({n \in 1..Len(ids) : ids[n] = <<dataModels[i], k>>}) = 1
           /\ \A n \in 1..Len(ids) :
                /\ \E i \in 1..Len(dataModels) : ids[n][1] = dataModels[i]
                /\ ids[n][2] \in 1..serverTotals[ids[n][1]]
           /\ \A n, o \in 1..Len(ids) : n < o =>
                \/ RoundOf(ids[n]) < RoundOf(ids[o])
                \/ /\ RoundOf(ids[n]) = RoundOf(ids[o])
                   /\ \/ PlaceOf(ids[n]) < PlaceOf(ids[o])
                      \/ ids[n][1] = ids[o][1] /\ ids[n][2] < ids[o][2]

\* C10 witness: two models of several pages each, all entries returned
C10_Witness ==
    /\ EntriesReturned /\ Len(dataModels) = 2 /\ numRounds >= 2
    /\ \A i \in 1..2 : serverTotals[dataModels[i]] > first
    /\ Len(returned[1]) = serverTotals[dataModels[1]] + serverTotals[dataModels[2]]

\* C11: a failing request of any round ends getEntries at once: one warning
\* is logged, the empty array is returned whatever the accumulator holds, and
\* no request is sent afterwards.
C11_FailureAbortsEmpty ==
    /\ [](entryWarnings # <<>> =>
            /\ epc = "done"
            /\ Len(entryWarnings) = 1
            /\ returned = Some(<<>>))
    /\ [][entryWarnings' # entryWarnings =>
            epc = "request" /\ numRounds' = numRounds]_vars
    /\ [][epc = "done" => numRounds' = numRounds /\ returned' = returned]_vars

\* C11 witness: the request of a later round failed after entries had been
\* accumulated
C11_Witness ==
    /\ entryWarnings # <<>> /\ returned = Some(<<>>)
    /\ numRounds >= 2 /\ result # <<>>

\* whether a response object has a key
HasKey(object, key) == \E i \in 1..Len(object.fields) : object.fields[i].key = key
\* a response object as received and as returned: a key aliased for the
\* object's own type is back under the field's name, every other key is kept
Recovered(received, object) ==
    /\ object.typename = received.typename
    /\ \A i \in 1..Len(received.fields) :
         LET key == received.fields[i].key
         IN IF key.alias = received.typename
            THEN HasKey(object, Plain(key.name)) /\ ~HasKey(object, key)
            ELSE HasKey(object, key)
ResponseTypes == ModelPool \cup {"Card", "Banner"}

Queried(query, model) == \E i \in 1..Len(query) : query[i].model = model
SkipOf(query, model) == (CHOOSE q \in {query[i] : i \in 1..Len(query)} : q.model = model).skip
\* whether the content API reports more pages for a model queried at a skip
ReportsMore(model, skip) ==
    Connection(model, serverTotals[model], first, skip).pageInfo.hasNextPage
\* a step in which the response of a round is handled
HandlesResponse == epc = "request" /\ entryWarnings' = entryWarnings

\* C19: a connection is part of the next round's query exactly when it was
\* part of this round's and its response reported hasNextPage; a connection
\* that was dropped is not queried again; and getEntries returns exactly
\* after the first round in which no connection reports more pages.
C19_ActiveIffHasNextPage ==
    /\ [][HandlesResponse =>
            /\ \A model \in ModelPool :
                 Queried(queryAst', model) <=>
                    (Queried(queryAst, model) /\ ReportsMore(model, SkipOf(queryAst, model)))
            /\ (epc' = "done") <=>
                 (\A model \in ModelPool :
                    Queried(queryAst, model) => ~ReportsMore(model, SkipOf(queryAst, model)))
            /\ epc' = "request" => numRounds' = numRounds + 1]_vars
    /\ [][\A model \in ModelPool :
            (epc = "request" /\ ~Queried(queryAst, model)) => ~Queried(queryAst', model)]_vars

\* C19 witness: a later round in which one of two connections is still
\* queried, the other having been dropped
C19_Witness ==
    /\ epc = "request" /\ numRounds >= 2
    /\ Len(dataModels) = 2 /\ Len(queryAst) = 1

InFlight == numRounds - numResponses
\* what is left to fetch: for every connection still queried, the request to
\* come and the entries beyond its skip
RECURSIVE Pending(_)
Pending(query) ==
    IF query = <<>> THEN 0
    ELSE LET left == serverTotals[Head(query).model] - Head(query).skip
         IN 1 + (IF left > 0 THEN left ELSE 0) + Pending(Tail(query))

\* C21: getEntries ends once every connection has reported hasNextPage =
\* false, which each does after finitely many responses (every response leaves
\* less to fetch); at most one request is in flight; and the request of round
\* n + 1 is sent in the step that merges the response of round n into the
\* accumulator and the offsets.
C21_SequentialRoundsTerminate ==
    /\ [](InFlight = (IF epc = "request" THEN 1 ELSE 0))
    /\ [][numRounds' > numRounds =>
            /\ numRounds' = numRounds + 1
            /\ numResponses' = numRounds
            /\ epc = "request" =>
                 LET merged == MergeRound(queryAst, 1, result, <<>>)
                 IN result' = merged.result /\ queryAst' = merged.query]_vars
    /\ [][HandlesResponse => epc' = "done" \/ Pending(queryAst') < Pending(queryAst)]_vars
    /\ (epc = "request") ~> (epc = "done")

\* C21 witness: getEntries returned after three rounds over two connections,
\* every request answered
C21_Witness ==
    /\ EntriesReturned /\ Len(dataModels) = 2
    /\ numRounds = 3 /\ numResponses = 3

(***************************************************************************)
(* Claims about the failures of the client's operations                    *)
(***************************************************************************)
\* C15 as stated: a create, update, delete or publish operation of which a
\* request failed throws to its caller.
C15_WriteFailuresRaised ==
    \A i \in 1..Len(clientOutcomes) :
        LET outcome == clientOutcomes[i]
        IN (outcome.op \in {"createEntry", "updateEntry", "deleteEntry", "publishEntry"}
                /\ outcome.failed) => outcome.raised

\* C16 as stated: a read operation of which a request failed logs a warning
\* and returns an empty or absent result; it does not throw.
C16_ReadFailuresSwallowed ==
    \A i \in 1..Len(clientOutcomes) :
        LET outcome == clientOutcomes[i]
        IN (outcome.op \in ReadOps /\ outcome.failed) =>
            /\ ~outcome.raised
            /\ outcome.value \in {"empty", "absent"}
            /\ outcome.warned = 1

PublishOps == {"publishEntry", "unpublishEntry"}

\* C24: publishEntry and unpublishEntry return normally, with no value,
\* whether or not their request failed; a failed request is logged as one
\* warning and not thrown again.
C24_PublishFailuresLogged ==
    /\ \A i \in 1..Len(clientOutcomes) :
         LET outcome == clientOutcomes[i]
         IN outcome.op \in PublishOps =>
                /\ ~outcome.raised
                /\ outcome.value = "void"
                /\ outcome.warned = (IF outcome.failed THEN 1 ELSE 0)
    /\ Len(clientWarnings) =
            Cardinality({i \in 1..Len(clientOutcomes) : clientOutcomes[i].warned > 0})

\* C24 witness: a publish whose request failed returned, and so did the
\* unpublish called after it
C24_Witness ==
    /\ Len(clientOutcomes) = 2
    /\ clientOutcomes[1] = Outcome("publishEntry", TRUE, FALSE, "void", 1)
    /\ clientOutcomes[2] = Outcome("unpublishEntry", TRUE, FALSE, "void", 1)
    /\ clientWarnings = <<"publishEntry", "unpublishEntry">>

(***************************************************************************)
(* Claims about serializeQueryArgValue                                     *)
(***************************************************************************)
ArgDone == argPc = "done"
\* reading a quoted literal's body back: \" is a double quote, \n a newline
RECURSIVE Unescape(_)
Unescape(text) ==
    IF text = <<>> THEN <<>>
    ELSE IF Len(text) >= 2 /\ text[1] = "\\" /\ text[2] = "\""
    THEN <<"\"">> \o Unescape(SubSeq(text, 3, Len(text)))
    ELSE IF Len(text) >= 2 /\ text[1] = "\\" /\ text[2] = "n"
    THEN <<"\n">> \o Unescape(SubSeq(text, 3, Len(text)))
    ELSE <<text[1]>> \o Unescape(Tail(text))
Holds(chars, c) == \E i \in 1..Len(chars) : chars[i] = c
\* the text is a quoted literal of the characters: between the two quotes
\* every double quote follows a backslash and there is no newline, and for
\* characters without a backslash the body reads back as the characters
QuotedLiteral(chars, text) ==
    /\ Len(text) >= 2 /\ text[1] = "\"" /\ text[Len(text)] = "\""
    /\ LET body == SubSeq(text, 2, Len(text) - 1)
       IN /\ \A i \in 1..Len(body) :
                /\ body[i] # "\n"
                /\ body[i] = "\"" => (i > 1 /\ body[i - 1] = "\\")
          /\ ~Holds(chars, "\\") => Unescape(body) = chars
\* an object tagged as enum: its `enum` is a non-empty string
TaggedEnum(value) ==
    /\ value.k = "object" /\ Len(value.items) = 1 /\ value.items[1].key = "enum"
    /\ value.items[1].val.k = "string" /\ value.items[1].val.text # <<>>

\* C18: a string is emitted as a quoted literal with its double quotes and
\* newlines escaped; an object as `{ k: v, ... }` and an array as `[v, ...]`,
\* the entries separated by ', ' with no comma after the last, each value
\* serialized in turn; an enum-tagged object as the raw name, unquoted.
C18_ArgumentText ==
    ArgDone =>
        /\ \A i \in 1..(Len(argText) - 1) :
              argText[i] = ", " => argText[i + 1] \notin {" }", "]", ", "}
        /\ CASE argValue.k = "string" -> QuotedLiteral(argValue.text, argText)
              [] argValue.k = "array" ->
                    argText = <<"[">>
                        \o Join([i \in 1..Len(argValue.items) |->
                                    SerializeQueryArgValue(argValue.items[i])], ", ")
                        \o <<"]">>
              [] argValue.k = "object" ->
                    IF TaggedEnum(argValue) THEN argText = argValue.items[1].val.text
                    ELSE argText = <<"{ ">>
                            \o Join([i \in 1..Len(argValue.items) |->
                                        <<argValue.items[i].key, ": ">>
                                            \o SerializeQueryArgValue(argValue.items[i].val)], ", ")
                            \o <<" }">>
              [] OTHER -> argText = <<ToString(argValue.n)>>

\* the double quotes of a literal's body that the remote protocol reads as
\* unescaped: a backslash escapes the character after it, whatever it is
RECURSIVE UnescapedQuotes(_, _)
UnescapedQuotes(body, i) ==
    IF i > Len(body) THEN {}
    ELSE IF body[i] = "\\" THEN UnescapedQuotes(body, i + 2)
    ELSE (IF body[i] = "\"" THEN {i} ELSE {}) \cup UnescapedQuotes(body, i + 1)

\* C29 as stated: the literal emitted for a string starts and ends with a
\* double quote and holds between them no double quote that the remote
\* protocol reads as unescaped; and no other string is emitted as the same
\* literal.
C29_InjectiveNotClosedEarly ==
    (ArgDone /\ argValue.k = "string") =>
        /\ Len(argText) >= 2 /\ argText[1] = "\"" /\ argText[Len(argText)] = "\""
        /\ UnescapedQuotes(SubSeq(argText, 2, Len(argText) - 1), 1) = {}
        /\ \A other \in ArgStrings :
             other # argValue => SerializeQueryArgValue(other) # argText

\* C18 witness: an object of two entries, the second a nested object whose
\* string holds a double quote and a newline, has been serialized
C18_Witness ==
    /\ ArgDone
    /\ argValue.k = "object" /\ Len(argValue.items) = 2
    /\ TaggedEnum(argValue.items[1].val)
    /\ LET nested == argValue.items[2].val
       IN /\ nested.k = "object" /\ Len(nested.items) = 2
          /\ nested.items[1].val = ArgStr(<<"\"", "\n">>)
    /\ argText[Len(argText)] = " }" /\ argText[Len(argText) - 1] = " }"

(***************************************************************************)
(* Claims about convertFieldsToQueryAST                                    *)
(***************************************************************************)
\* the number of times a model is expanded through a relation field along
\* the path of the active calls (the outermost call is the root selection)
Expansions(model, depth) ==
    Cardinality({i \in 2..depth : stack[i].model = model})

Place(stk) == [i \in 1..Len(stk) |-> <<stk[i].idx, stk[i].cand>>]
PairLess(p, q) == p[1] < q[1] \/ (p[1] = q[1] /\ p[2] < q[2])
\* lexicographic order, a proper prefix first
PlaceLess(p, q) ==
    \E k \in 1..(Len(q)) :
        /\ \A i \in 1..(k - 1) : i <= Len(p) /\ p[i] = q[i]
        /\ k - 1 <= Len(p)
        /\ IF k <= Len(p) THEN PairLess(p[k], q[k]) ELSE TRUE
\* the longest chain of active calls: the root and bound + 1 expansions per model
MaxDepth == 1 + Cardinality(TypePool) * (VisitBound + 1)

\* C2: a compilation that has started ends. While it runs it is always at one
\* of its steps (a field, a candidate, the end of a reduce, a return), every
\* step moves its place forward in the depth-first order of a finite tree (the
\* depth and the loops are bounded), and the tree is finite because every
\* recursive call enters a model whose ledger count was at most the bound and
\* hands down a ledger in which exactly that count is one higher.
C2_Terminates ==
    /\ [](cpc = "run" =>
            /\ AtPlainField \/ AtSingleField \/ AtCandidate \/ AtReduceEnd
                    \/ AtReturn \/ AtDone
            /\ Len(stack) \in 1..MaxDepth
            /\ \A i \in 1..Len(stack) :
                /\ stack[i].idx \in 1..(Len(schema[stack[i].model]) + 1)
                /\ stack[i].cand \in 1..(MaxModels + 1)
                /\ \A model \in TargetNames : stack[i].visited[model] <= VisitBound + 1)
    /\ [][cpc = "run" =>
            \/ cpc' = "done"
            \/ cpc' = "run" /\ PlaceLess(Place(stack), Place(stack'))]_vars
    /\ [][Len(stack') > Len(stack) /\ Len(stack) > 0 =>
            LET caller == stack[Len(stack)]
                callee == stack'[Len(stack')]
            IN /\ Len(stack') = Len(stack) + 1
               /\ caller.visited[callee.model] <= VisitBound
               /\ callee.visited[callee.model] = caller.visited[callee.model] + 1
               /\ \A other \in TargetNames \ {callee.model} :
                    callee.visited[other] = caller.visited[other]]_vars

\* C2 witness: the compilation of a self-referencing model, and of a cycle of
\* two models through a single-model and a multi-model field, has ended
SelfReferencing(model) ==
    \E i \in 1..Len(schema[model]) :
        schema[model][i].type = "model" /\ schema[model][i].models = <<model>>
C2_Witness ==
    /\ cpc = "done"
    /\ \/ SelfReferencing("A")
       \/ /\ schema["A"][2].isMultiModel /\ schema["A"][2].models = <<"X", "B">>
          /\ ~schema["B"][1].isMultiModel /\ schema["B"][1].models = <<"A">>

Compiled == cpc \in {"done", "sent"}
\* the entries of a selection under a key
EntriesOf(fields, key) == {i \in 1..Len(fields) : fields[i].key = key}
\* two fields of one model that are relations of the same shape to the same
\* models
Siblings(f, g) ==
    /\ f.name # g.name
    /\ f.type = "model" /\ g.type = "model"
    /\ f.isMultiModel = g.isMultiModel /\ f.models = g.models
\* the selection made for a field, <<>> when the field is left out
SelectionOf(fields, name) ==
    IF EntriesOf(fields, name) = {} THEN Undefined
    ELSE Some(fields[CHOOSE i \in EntriesOf(fields, name) : TRUE].val)
\* how many objects deep a selection goes
RECURSIVE NestingDepth(_)
NestingDepth(fields) ==
    LET depths == {IF fields[i].val.t \in {"obj", "on"}
                   THEN 1 + NestingDepth(fields[i].val.fields) ELSE 0 :
                   i \in 1..Len(fields)}
    IN IF depths = {} THEN 0 ELSE CHOOSE d \in depths : \A e \in depths : e <= d

\* C23: a recursive call never changes the ledger of any call that is
\* active: every call keeps, from its first step to its return, the ledger it
\* was handed; so two sibling fields of one model that are relations to the
\* same models get the same selection, however deep the first one expanded.
C23_LedgerByValue ==
    /\ [][cpc = "run" /\ cpc' = "run" =>
            \A i \in 1..Min(Len(stack), Len(stack')) :
                stack'[i].visited = stack[i].visited /\ stack'[i].model = stack[i].model]_vars
    /\ [](\A c \in 1..Len(stack) :
            LET call == stack[c]
                fields == FieldsOf(call)
            IN \A f, g \in 1..Len(fields) :
                (f < call.idx /\ g < call.idx /\ Siblings(fields[f], fields[g])) =>
                    SelectionOf(call.fieldAst, fields[f].name)
                        = SelectionOf(call.fieldAst, fields[g].name))
    /\ [](Compiled =>
            \A f, g \in 1..Len(schema[entryModel]) :
                Siblings(schema[entryModel][f], schema[entryModel][g]) =>
                    SelectionOf(ast, schema[entryModel][f].name)
                        = SelectionOf(ast, schema[entryModel][g].name))

\* C23 witness: both sibling fields of the root expanded the self-referencing
\* model B as deep as the bound allows
C23_Witness ==
    /\ Compiled /\ entryModel = "A" /\ Len(schema["A"]) = 4
    /\ schema["B"][1].models = <<"B">>
    /\ SelectionOf(ast, "blocks") # Undefined
    /\ SelectionOf(ast, "blocks") = SelectionOf(ast, "extra")
    /\ NestingDepth(SelectionOf(ast, "extra")[1].fields) >= VisitBound + 1

\* whether a model of the schema has a field of a name
Declares(model, name) ==
    model \in TypePool /\ \E i \in 1..Len(schema[model]) : schema[model][i].name = name

\* the branches of every __on map of a selection, at any depth: the model of
\* the branch and the entries selected in it
RECURSIVE BranchesIn(_)
BranchesIn(fields) ==
    UNION {LET value == fields[i].val
           IN IF value.t = "on"
              THEN UNION {{[model |-> value.fields[b].key,
                            fields |-> value.fields[b].val.fields]}
                            \cup BranchesIn(value.fields[b].val.fields) :
                          b \in 1..Len(value.fields)}
              ELSE BranchesIn(value.fields) : i \in 1..Len(fields)}

\* the objects and __on maps of a selection, at any depth
RECURSIVE NodesIn(_)
NodesIn(fields) ==
    UNION {IF fields[i].val.t \in {"obj", "on"}
           THEN {fields[i].val} \cup NodesIn(fields[i].val.fields) ELSE {} :
           i \in 1..Len(fields)}
\* whether a selection starts with the given keys, each selected as `1`
StartsWith(fields, keys) ==
    /\ Len(fields) >= Len(keys)
    /\ \A i \in 1..Len(keys) : fields[i] = Entry(keys[i], One)

\* C28: no object selected is empty. In the selection of every call, for the
\* fields already handled: a 'model' field of one model is either left out or
\* selects __typename and id first; a polymorphic 'model' field is always
\* there, as __typename and the __on map, whatever candidates were left out;
\* and every branch of an __on map selects id first.
C28_SelectionsNotEmpty ==
    \A c \in 1..Len(stack) :
        LET call == stack[c]
        IN /\ \A node \in NodesIn(call.fieldAst) : node.t = "obj" => node.fields # <<>>
           /\ \A branch \in BranchesIn(call.fieldAst) : StartsWith(branch.fields, <<"id">>)
           /\ \A f \in 1..Len(FieldsOf(call)) :
                LET field == FieldsOf(call)[f]
                    selected == SelectionOf(call.fieldAst, field.name)
                IN (f < call.idx /\ field.type = "model") =>
                    IF field.isMultiModel
                    THEN /\ selected # Undefined
                         /\ selected[1].t = "obj" /\ Len(selected[1].fields) = 2
                         /\ selected[1].fields[1] = Entry("__typename", One)
                         /\ selected[1].fields[2].key = "__on"
                         /\ selected[1].fields[2].val.t = "on"
                    ELSE \/ selected = Undefined
                         \/ /\ selected[1].t = "obj"
                            /\ StartsWith(selected[1].fields, <<"__typename", "id">>)

\* C28 witness: a call has handled a polymorphic field all of whose candidates
\* were left out, one for the depth bound and one for a lookup miss, and
\* selected it with an empty __on map
C28_Witness ==
    /\ cpc = "run" /\ Len(stack) >= VisitBound + 1 /\ Top.idx > 2
    /\ LET field == FieldsOf(Top)[2]
       IN /\ IsMultiModel(field) /\ field.models = <<"X", "A">>
          /\ Top.visited["A"] > VisitBound
          /\ SelectionOf(Top.fieldAst, field.name)
                = Some(Obj(<<Entry("__typename", One), Entry("__on", On(<<>>))>>))

\* an entry selected under the alias __<model>_alias__<key>
CarriesAlias(entry, model) ==
    /\ entry.val.t \in {"str", "obj"}
    /\ entry.val.alias = [alias |-> model, name |-> entry.key]

SingleRelation(field) ==
    field.type \in {"model", "reference"} /\ ~field.isMultiModel /\ Len(field.models) = 1

\* C17 as stated: in the selection of every call, a single-relation field of
\* 'model' or 'reference' kind whose model is not resolved is left out, and no
\* branch of a polymorphic field is for a model that is not resolved.
C17_UnresolvedDropped ==
    \A c \in 1..Len(stack) :
        LET call == stack[c]
        IN \A f \in 1..Len(FieldsOf(call)) :
            LET field == FieldsOf(call)[f]
            IN f < call.idx =>
                /\ (SingleRelation(field) /\ GetModelByName(field.models[1]) = Undefined)
                        => EntriesOf(call.fieldAst, field.name) = {}
                /\ \A i \in EntriesOf(call.fieldAst, field.name) :
                     \A branch \in BranchesIn(<<call.fieldAst[i]>>) :
                        GetModelByName(branch.model) # Undefined

(***************************************************************************)
(* Claims about the serialized query                                       *)
(***************************************************************************)
\* the selections made directly inside the inline fragments of a query text:
\* for each, the line that opens the polymorphic field (its scope), the model
\* of the fragment (its branch), and the alias and name selected.
\* `open` holds the lines of the objects and fragments not yet closed.
RECURSIVE BranchSelections(_, _, _, _)
BranchSelections(lines, k, open, acc) ==
    IF k > Len(lines) THEN acc
    ELSE LET line == lines[k]
             inBranch == open # <<>> /\ lines[open[Len(open)]].kind = "fragment"
             selection == [scope |-> open[Len(open) - 1],
                           branch |-> lines[open[Len(open)]].name,
                           alias |-> line.alias,
                           name |-> line.name]
             found == IF inBranch THEN acc \cup {selection} ELSE acc
         IN CASE line.kind = "close" ->
                    BranchSelections(lines, k + 1, SubSeq(open, 1, Len(open) - 1), acc)
              [] line.kind = "fragment" ->
                    BranchSelections(lines, k + 1, Append(open, k), acc)
              [] line.kind = "open" ->
                    BranchSelections(lines, k + 1, Append(open, k), found)
              [] OTHER ->
                    BranchSelections(lines, k + 1, open, found)

QuerySent == cpc = "sent"

\* reading a query text back, from its k-th line, as the entries of one
\* object at a nesting level: a field line is a leaf, with its alias if any;
\* an opening line holds the entries down to its closing line, which must be
\* at the same level, the entries one level deeper; the fragments that follow
\* one another form one __on map. `ok` tells whether the lines were well formed.
RECURSIVE ReadBack(_, _, _, _)
ReadBack(lines, k, level, acc) ==
    IF k > Len(lines) THEN [ok |-> level = 0, fields |-> acc, next |-> k]
    ELSE LET line == lines[k]
         IN IF line.kind = "close"
            THEN [ok |-> line.level = level - 1, fields |-> acc, next |-> k]
            ELSE IF line.level # level
            THEN [ok |-> FALSE, fields |-> acc, next |-> k]
            ELSE IF line.kind = "field"
            THEN ReadBack(lines, k + 1, level,
                          Append(acc, Entry(line.name,
                                            IF line.alias = NoAlias THEN One
                                            ELSE Str(line.alias))))
            ELSE LET inner == ReadBack(lines, k + 1, level + 1, <<>>)
                     branch == Entry(line.name, Obj(inner.fields))
                 IN IF ~inner.ok \/ inner.next > Len(lines)
                    THEN [ok |-> FALSE, fields |-> acc, next |-> k]
                    ELSE IF line.kind = "open"
                    THEN ReadBack(lines, inner.next + 1, level,
                                  Append(acc, Entry(line.name,
                                                    [t |-> "obj", alias |-> line.alias,
                                                     args |-> line.args,
                                                     fields |-> inner.fields])))
                    ELSE IF acc # <<>> /\ acc[Len(acc)].key = "__on"
                    THEN ReadBack(lines, inner.next + 1, level,
                                  [acc EXCEPT ![Len(acc)].val.fields = Append(@, branch)])
                    ELSE ReadBack(lines, inner.next + 1, level,
                                  Append(acc, Entry("__on", On(<<branch>>))))

\* a query AST as its text shows it: the arguments of an object as their
\* text, an __on map without branches left out
RECURSIVE Shown(_)
Shown(fields) ==
    IF fields = <<>> THEN <<>>
    ELSE LET key == Head(fields).key
             value == Head(fields).val
         IN (IF value.t = "on" /\ value.fields = <<>> THEN <<>>
             ELSE IF value.t = "on"
             THEN <<Entry(key, On([b \in 1..Len(value.fields) |->
                            Entry(value.fields[b].key,
                                  Obj(Shown(value.fields[b].val.fields)))]))>>
             ELSE IF value.t = "obj"
             THEN <<Entry(key, [value EXCEPT
                            !.args = IF @ = Undefined THEN Undefined
                                     ELSE Some(ArgumentsText(@[1])),
                            !.fields = Shown(@)])>>
             ELSE <<Head(fields)>>)
            \o Shown(Tail(fields))

\* C30: the text of a query AST reads back as the AST: every object is one
\* opening line, `name {` or `name(args) {` with its alias if any, its entries
\* one level deeper and one closing line at its own level; every branch of an
\* __on map is one `... on <Type> {` block; every leaf is one line, `name` or
\* `alias: name`; all in the order of the maps' entries. So equal ASTs have
\* equal texts, and different ASTs different ones.
C30_TextReadsBackAsAst ==
    QuerySent =>
        LET read == ReadBack(queryText, 1, 0, <<>>)
        IN /\ read.ok /\ read.next = Len(queryText) + 1
           /\ \E entryId \in EntryIds :
                /\ queryText = ConvertASTToQuery(EntryByIdAst(entryId), 0)
                /\ read.fields = Shown(EntryByIdAst(entryId))
           /\ queryText[1] = Line(0, "open", NoAlias, "query", Undefined)
           /\ queryText[Len(queryText)] = Line(0, "close", NoAlias, "", Undefined)

\* C30 witness: a query with an object that has arguments, an aliased object,
\* an aliased leaf and two fragments of one field, nested three objects deep
C30_Witness ==
    /\ QuerySent
    /\ \E k \in 1..Len(queryText) :
         queryText[k].kind = "open" /\ queryText[k].args # Undefined
    /\ \E k \in 1..Len(queryText) :
         queryText[k].kind = "open" /\ queryText[k].alias # NoAlias
    /\ \E k \in 1..Len(queryText) :
         queryText[k].kind = "field" /\ queryText[k].alias # NoAlias
    /\ \E k, l \in 1..Len(queryText) :
         /\ k < l /\ queryText[k].kind = "fragment" /\ queryText[l].kind = "fragment"
         /\ queryText[k].level = queryText[l].level /\ queryText[k].level >= 3
         /\ queryText[k].name # queryText[l].name

UploadFetches == Len(uploadSeen) + (IF uploadPc = "fetch" THEN 1 ELSE 0)
UploadEnded == uploadPc = "ended"
UploadReturned(status) == UploadEnded /\ uploadOutcome = Some([returned |-> status])
UploadRaised(message) == UploadEnded /\ uploadOutcome = Some([raised |-> message])

\* C31: the polling of uploadAsset makes at most 10 fetches, with one 500ms
\* delay before each fetch after the first; it goes on only while every fetch
\* so far reported ASSET_CREATE_PENDING and ends at the first that does not;
\* a fetch that returns nothing makes the call throw at once; and after 10
\* pending fetches the call returns the pending asset, with no error and no
\* warning logged.
C31_PollingOfUploadedAsset ==
    /\ UploadFetches <= 10
    /\ uploadDelays = (IF UploadFetches = 0 THEN 0
                       ELSE IF uploadPc = "delay" THEN UploadFetches
                       ELSE UploadFetches - 1)
    /\ \A k \in 1..(Len(uploadSeen) - 1) : uploadSeen[k] = "ASSET_CREATE_PENDING"
    /\ uploadPc \in {"fetch", "delay"} =>
          \A k \in 1..Len(uploadSeen) : uploadSeen[k] = "ASSET_CREATE_PENDING"
    /\ (UploadEnded /\ uploadSeen # <<>>) =>
          LET last == uploadSeen[Len(uploadSeen)]
          IN /\ last = Nothing <=> UploadRaised("Error finding uploaded asset")
             /\ last # Nothing <=> UploadReturned(last)
             /\ last = "ASSET_CREATE_PENDING" =>
                   /\ Len(uploadSeen) = 10
                   /\ uploadWarnings = <<>>
                   /\ uploadDelays = 9
    /\ (uploadPc = "delay" \/ (uploadPc = "fetch" /\ uploadSeen # <<>>)) =>
          Len(uploadSeen) < 10

\* C31 witness: the tenth fetch still reported ASSET_CREATE_PENDING and the
\* call returned that asset
C31_Witness ==
    /\ UploadReturned("ASSET_CREATE_PENDING")
    /\ Len(uploadSeen) = 10
    /\ uploadDelays = 9

\* the notified entry is of a type getModelByName does not resolve
UnknownType == modelName \notin KnownModels \cup {"Asset"}

\* C32: a create, update, publish or unpublish notification for an entry of a
\* type the schema does not know ends after the first call of getEntryById,
\* which returns nothing without sending a request and without logging: no
\* request, no delay, no warning, no updateContent call, and the cache as it
\* was.
C32_UnknownTypeEndsQuietly ==
    /\ []((wpc # "idle" /\ operation # "delete" /\ UnknownType) =>
            /\ numFetches = 1 /\ numRequests = 0 /\ numDelays = 0
            /\ warnings = <<>> /\ updates = <<>>
            /\ hygraphItem = Undefined
            /\ wpc \in {"fetch", "done"})
    /\ [][(operation' # "delete" /\ modelName' \notin KnownModels \cup {"Asset"})
            => cache' = cache]_vars
    /\ [][(wpc = "fetch" /\ UnknownType) => wpc' = "done"]_vars

\* C32 witness: a publish notification for an entry of an unknown type ended,
\* the cache holding a document
C32_Witness ==
    /\ ChangeDone /\ UnknownType /\ operation = "publish"
    /\ cache.documents # Undefined
    /\ numFetches = 1 /\ numRequests = 0

====
